---- MODULE Spec2Model ----
(***************************************************************************)
(* Model of the skyshot-api list/search endpoints: the ApiFeatures query   *)
(* helper (filter, search, sort, limitFields, paginate), the factory       *)
(* handlers getAll and searchDocuments, and the resource-specific list     *)
(* endpoints, over a document store with find/sort/skip/limit/count; and   *)
(* of the endpoints that write: uploads and their review, orders and       *)
(* downloads, users and roles, settings, login, tokens, password reset     *)
(* and missions, each over the documents it writes (db).                   *)
(*                                                                         *)
(* Strings of the program are sequences of one-character strings, so that  *)
(* the regular-expression rewriting of ApiFeatures.filter, Number(),       *)
(* parseInt() and the regex matching of the store act on characters.       *)
(***************************************************************************)
EXTENDS Integers, Sequences, FiniteSets, TLC

VARIABLES pc, req, feat, res, db

vars == <<pc, req, feat, res, db>>

(***************************************************************************)
(* String literals of the program and of the fixtures.                     *)
(***************************************************************************)
S_page == <<"p", "a", "g", "e">>
S_sort == <<"s", "o", "r", "t">>
S_limit == <<"l", "i", "m", "i", "t">>
S_fields == <<"f", "i", "e", "l", "d", "s">>
S_keyword == <<"k", "e", "y", "w", "o", "r", "d">>
S_category == <<"c", "a", "t", "e", "g", "o", "r", "y">>
S_price == <<"p", "r", "i", "c", "e">>
S_role == <<"r", "o", "l", "e">>
S_name == <<"n", "a", "m", "e">>
S_title == <<"t", "i", "t", "l", "e">>
S_photography == <<"p", "h", "o", "t", "o", "g", "r", "a", "p", "h", "y">>
S_video == <<"v", "i", "d", "e", "o">>
S_createdAt == <<"c", "r", "e", "a", "t", "e", "d", "A", "t">>
S_neg_createdAt == <<"-", "c", "r", "e", "a", "t", "e", "d", "A", "t">>
S_neg_price == <<"-", "p", "r", "i", "c", "e">>
S_gt == <<"g", "t">>
S_gte == <<"g", "t", "e">>
S_lt == <<"l", "t">>
S_lte == <<"l", "t", "e">>
S_in == <<"i", "n">>
S_ne == <<"n", "e">>
S_2 == <<"2">>
S_10 == <<"1", "0">>
S_x == <<"x">>
S_status == <<"s", "t", "a", "t", "u", "s">>
S_fileType == <<"f", "i", "l", "e", "T", "y", "p", "e">>
S_featured == <<"f", "e", "a", "t", "u", "r", "e", "d">>
S_user == <<"u", "s", "e", "r">>
S_views == <<"v", "i", "e", "w", "s">>
S_description == <<"d", "e", "s", "c", "r", "i", "p", "t", "i", "o", "n">>
S_tags == <<"t", "a", "g", "s">>
S_firstName == <<"f", "i", "r", "s", "t", "N", "a", "m", "e">>
S_lastName == <<"l", "a", "s", "t", "N", "a", "m", "e">>
S_email == <<"e", "m", "a", "i", "l">>
S_approved == <<"a", "p", "p", "r", "o", "v", "e", "d">>
S_pending == <<"p", "e", "n", "d", "i", "n", "g">>
S_rejected == <<"r", "e", "j", "e", "c", "t", "e", "d">>
S_admin == <<"a", "d", "m", "i", "n">>
S_master == <<"m", "a", "s", "t", "e", "r">>
S_partner == <<"p", "a", "r", "t", "n", "e", "r">>
S_customer == <<"c", "u", "s", "t", "o", "m", "e", "r">>
S_image == <<"i", "m", "a", "g", "e">>
S_orderNumber == <<"o", "r", "d", "e", "r", "N", "u", "m", "b", "e", "r">>
S_assignedTo == <<"a", "s", "s", "i", "g", "n", "e", "d", "T", "o">>
S_scheduledDate == <<"s", "c", "h", "e", "d", "u", "l", "e", "d", "D", "a", "t", "e">>
S_type == <<"t", "y", "p", "e">>
S_isRead == <<"i", "s", "R", "e", "a", "d">>
S_priority == <<"p", "r", "i", "o", "r", "i", "t", "y">>
S_system == <<"s", "y", "s", "t", "e", "m">>
S_upload == <<"u", "p", "l", "o", "a", "d">>
S_payment == <<"p", "a", "y", "m", "e", "n", "t">>
S_high == <<"h", "i", "g", "h">>
S_low == <<"l", "o", "w">>
S_paid == <<"p", "a", "i", "d">>
S_true == <<"t", "r", "u", "e">>
S_false == <<"f", "a", "l", "s", "e">>
S_assigned == <<"a", "s", "s", "i", "g", "n", "e", "d">>

(* The empty string; also the "no nested operator" marker of a parameter. *)
Empty == <<>>

(***************************************************************************)
(* Bounds of the model.                                                    *)
(***************************************************************************)
MaxStrLen == 3

(* Characters the bounded parameter values are drawn from. *)
Alphabet == {"g", "t", "e", " "}

RECURSIVE StringsUpTo(_)
StringsUpTo(n) ==
  IF n = 0 THEN {Empty}
  ELSE LET shorter == StringsUpTo(n - 1)
       IN  shorter \cup {Append(s, c) : s \in {t \in shorter : Len(t) = n - 1}, c \in Alphabet}

BoundedStrings == StringsUpTo(MaxStrLen)

(***************************************************************************)
(* JavaScript regular expressions: \w and \b.                              *)
(***************************************************************************)
WordChars ==
  {"a", "b", "c", "d", "e", "f", "g", "h", "i", "j", "k", "l", "m", "n", "o",
   "p", "q", "r", "s", "t", "u", "v", "w", "x", "y", "z",
   "A", "B", "C", "D", "E", "F", "G", "H", "I", "J", "K", "L", "M", "N", "O",
   "P", "Q", "R", "S", "T", "U", "V", "W", "X", "Y", "Z",
   "0", "1", "2", "3", "4", "5", "6", "7", "8", "9", "_"}

IsWordChar(c) == c \in WordChars

(* \b between position i and i+1 of s (i in 0..Len(s)): exactly one side is a
   word character. In the JSON text a key or a string value lies between two
   double quotes, which are not word characters. *)
WordBoundary(s, i) ==
  LET before == i >= 1 /\ IsWordChar(s[i])
      after == i < Len(s) /\ IsWordChar(s[i + 1])
  IN  before # after

(* The alternatives of /\b(gt|gte|lt|lte|in)\b/g. *)
OperatorTokens == {S_gt, S_gte, S_lt, S_lte, S_in}

(* The alternatives that match at position i with a \b on both sides. *)
MatchesAt(s, i) ==
  {p \in OperatorTokens :
     /\ i + Len(p) - 1 <= Len(s)
     /\ SubSeq(s, i, i + Len(p) - 1) = p
     /\ WordBoundary(s, i - 1)
     /\ WordBoundary(s, i + Len(p) - 1)}

RECURSIVE ReplaceFrom(_, _)
ReplaceFrom(s, i) ==
  IF i > Len(s) THEN Empty
  ELSE IF MatchesAt(s, i) # {}
       THEN LET p == CHOOSE m \in MatchesAt(s, i) : TRUE
            IN  <<"$">> \o p \o ReplaceFrom(s, i + Len(p))
       ELSE <<s[i]>> \o ReplaceFrom(s, i + 1)

(* queryStr.replace(/\b(gt|gte|lt|lte|in)\b/g, (match) => `$${match}`) on the
   text of one key or one string value of the JSON document. *)
ReplaceOperators(s) == ReplaceFrom(s, 1)

(***************************************************************************)
(* Number() and parseInt() of JavaScript on the strings of the model       *)
(* (optional sign and decimal digits; anything else is NaN).               *)
(***************************************************************************)
Digits == {"0", "1", "2", "3", "4", "5", "6", "7", "8", "9"}

DigitValue(c) ==
  CASE c = "0" -> 0 [] c = "1" -> 1 [] c = "2" -> 2 [] c = "3" -> 3 [] c = "4" -> 4
    [] c = "5" -> 5 [] c = "6" -> 6 [] c = "7" -> 7 [] c = "8" -> 8 [] c = "9" -> 9

NaN == [nan |-> TRUE, n |-> 0]

Num(n) == [nan |-> FALSE, n |-> n]

RECURSIVE DigitsValue(_)
DigitsValue(s) ==
  IF s = Empty THEN 0 ELSE 10 * DigitsValue(SubSeq(s, 1, Len(s) - 1)) + DigitValue(s[Len(s)])

RECURSIVE TrimStart(_)
TrimStart(s) == IF s # Empty /\ Head(s) = " " THEN TrimStart(Tail(s)) ELSE s

RECURSIVE TrimEnd(_)
TrimEnd(s) ==
  IF s # Empty /\ s[Len(s)] = " " THEN TrimEnd(SubSeq(s, 1, Len(s) - 1)) ELSE s

(* String.prototype.trim *)
Trim(s) == TrimEnd(TrimStart(s))

AllDigits(s) == \A i \in 1..Len(s) : s[i] \in Digits

(* Number(s) for a string s: "" and blank strings are 0. *)
ToNumber(s) ==
  LET t == Trim(s)
      neg == t # Empty /\ Head(t) = "-"
      body == IF t # Empty /\ Head(t) \in {"-", "+"} THEN Tail(t) ELSE t
  IN  IF t = Empty THEN Num(0)
      ELSE IF body # Empty /\ AllDigits(body)
           THEN Num(IF neg THEN 0 - DigitsValue(body) ELSE DigitsValue(body))
           ELSE NaN

RECURSIVE LeadingDigits(_)
LeadingDigits(s) ==
  IF s # Empty /\ Head(s) \in Digits THEN <<Head(s)>> \o LeadingDigits(Tail(s)) ELSE Empty

(* parseInt(s): leading blanks, an optional sign, then the longest run of digits. *)
ParseInt(s) ==
  LET t == TrimStart(s)
      neg == t # Empty /\ Head(t) = "-"
      body == IF t # Empty /\ Head(t) \in {"-", "+"} THEN Tail(t) ELSE t
      ds == LeadingDigits(body)
  IN  IF ds = Empty THEN NaN
      ELSE Num(IF neg THEN 0 - DigitsValue(ds) ELSE DigitsValue(ds))

(* x || d for a number x: NaN and 0 are falsy. *)
OrDefault(x, d) == IF x.nan \/ x.n = 0 THEN d ELSE x.n

CeilDiv_floor(a, b) == a \div b

(* Math.ceil(a / b) for integers a and b # 0. *)
CeilDiv(a, b) ==
  IF b > 0 THEN (a + b - 1) \div b
  ELSE 0 - (a \div (0 - b))

(***************************************************************************)
(* Request parameters (req.query). A parameter is a plain string           *)
(* (key=value: op is Empty) or one nested operator (key[op]=value).        *)
(***************************************************************************)
Plain(s) == [op |-> Empty, s |-> s]

Nested(op, s) == [op |-> op, s |-> s]

Has(q, k) == k \in DOMAIN q

(* q[k] as JavaScript sees it in a numeric or string context. *)
IsPlain(q, k) == Has(q, k) /\ q[k].op = Empty

(* Truthiness of q[k]: undefined and "" are falsy, an object is truthy. *)
Truthy(q, k) == Has(q, k) /\ (q[k].op # Empty \/ q[k].s # Empty)

(* Number(q[k]): undefined and objects give NaN. *)
NumberOf(q, k) == IF IsPlain(q, k) THEN ToNumber(q[k].s) ELSE NaN

(* parseInt(q[k]) *)
ParseIntOf(q, k) == IF IsPlain(q, k) THEN ParseInt(q[k].s) ELSE NaN

(***************************************************************************)
(* Filter documents of the store: a function from key to a condition.      *)
(***************************************************************************)
NoFields == [k \in {} |-> Empty]

Value(kind) ==
  [kind |-> kind, s |-> Empty, fields |-> NoFields, paths |-> {}, n |-> 0,
   b |-> FALSE, set |-> {}]

(* { key: "s" } *)
StringValue(s) == [Value("string") EXCEPT !.s = s]

(* { key: { op: "s", ... } } *)
ObjectValue(fields) == [Value("object") EXCEPT !.fields = fields]

(* { $or: [ {p1: {$regex: s, $options: "i"}}, ... ] } *)
OrRegex(paths, s) == [Value("or") EXCEPT !.paths = paths, !.s = s]

(* { key: { $regex: s, $options: "i" } } *)
RegexValue(s) == [Value("regex") EXCEPT !.s = s]

(* { key: n } for a number or an object id *)
NumberValue(n) == [Value("number") EXCEPT !.n = n]

(* { key: true | false } *)
BoolValue(b) == [Value("bool") EXCEPT !.b = b]

(* { key: { $in: [...] } } *)
InValue(set) == [Value("in") EXCEPT !.set = set]

(* { key: { $gte: lo, $lte: hi } } with numbers already parsed; a bound that
   is not given is NaN. *)
RangeValue(lo, hi) == [Value("range") EXCEPT !.fields = [k \in {"lo", "hi"} |-> IF k = "lo" THEN lo ELSE hi]]

(* { $text: { $search: s } } *)
TextValue(s) == [Value("text") EXCEPT !.s = s]

S_or == <<"$", "o", "r">>

S_text == <<"$", "t", "e", "x", "t">>

NoConds == [k \in {} |-> StringValue(Empty)]

(* Query.prototype.find(conds): merges conds into the query's conditions. *)
MergeConds(old, new) ==
  [k \in DOMAIN old \cup DOMAIN new |-> IF k \in DOMAIN new THEN new[k] ELSE old[k]]

(* Model.find(filterObj) *)
Find(model, filterObj) ==
  [model |-> model, conds |-> filterObj, sortBy |-> Empty, select |-> Empty,
   skip |-> 0, limit |-> 0]

(***************************************************************************)
(* ApiFeatures                                                             *)
(***************************************************************************)
NoPagination == [currentPage |-> 0]

NewApiFeatures(mongooseQuery, queryString) ==
  [mongooseQuery |-> mongooseQuery, queryString |-> queryString,
   paginationResults |-> NoPagination]

excludeFields_withoutKeyword == {S_page, S_sort, S_limit, S_fields}

excludeFields == {S_page, S_sort, S_limit, S_fields, S_keyword}

(* qs.parse(req.query, { depth: 1 }): one level of nesting. *)
QsParse(q) ==
  [k \in DOMAIN q |->
     IF q[k].op = Empty THEN StringValue(q[k].s)
     ELSE ObjectValue([o \in {q[k].op} |-> q[k].s])]

(* JSON.stringify, the operator rewriting, JSON.parse: every key and every
   string of the document is rewritten; of two equal keys the last one wins. *)
RewriteFields(fields) ==
  LET keys == {ReplaceOperators(o) : o \in DOMAIN fields}
  IN  [n \in keys |->
         ReplaceOperators(fields[CHOOSE o \in DOMAIN fields : ReplaceOperators(o) = n])]

RewriteValue(v) ==
  IF v.kind = "string" THEN StringValue(ReplaceOperators(v.s))
  ELSE ObjectValue(RewriteFields(v.fields))

RewriteDocument(obj) ==
  LET keys == {ReplaceOperators(k) : k \in DOMAIN obj}
  IN  [n \in keys |->
         RewriteValue(obj[CHOOSE k \in DOMAIN obj : ReplaceOperators(k) = n])]

(* ApiFeatures.filter *)
filter(f) ==
  LET parsed == QsParse(f.queryString)
      queryStringObj == [k \in DOMAIN parsed \ excludeFields |-> parsed[k]]
      queryStr == RewriteDocument(queryStringObj)
  IN  [f EXCEPT !.mongooseQuery.conds = MergeConds(@, queryStr)]

(* sort.split(",").join(" ") *)
CommasToSpaces(s) == [i \in 1..Len(s) |-> IF s[i] = "," THEN " " ELSE s[i]]

(* ApiFeatures.sort *)
sort(f) ==
  IF Truthy(f.queryString, S_sort)
  THEN [f EXCEPT !.mongooseQuery.sortBy = CommasToSpaces(f.queryString[S_sort].s)]
  ELSE [f EXCEPT !.mongooseQuery.sortBy = S_neg_createdAt]

S_neg_v == <<"-", "_", "_", "v">>

(* ApiFeatures.limitFields *)
limitFields(f) ==
  IF Truthy(f.queryString, S_fields)
  THEN [f EXCEPT !.mongooseQuery.select = CommasToSpaces(f.queryString[S_fields].s)]
  ELSE [f EXCEPT !.mongooseQuery.select = S_neg_v]

(* ApiFeatures.search *)
search(f, modelName) ==
  IF Truthy(f.queryString, S_keyword)
  THEN LET searchQuery == f.queryString[S_keyword].s
           paths == IF modelName = "Product" THEN {S_title, S_description} ELSE {S_name}
       IN  [f EXCEPT !.mongooseQuery.conds =
              MergeConds(@, [k \in {S_or} |-> OrRegex(paths, searchQuery)])]
  ELSE f

DefaultPage == 1
DefaultLimit == 25

(* ApiFeatures.paginate *)
paginate(f, countDocuments) ==
  LET page == OrDefault(NumberOf(f.queryString, S_page), DefaultPage)
      limit == OrDefault(NumberOf(f.queryString, S_limit), DefaultLimit)
      skip == (page - 1) * limit
      endIndex == page * limit
      base == [currentPage |-> page, limit |-> limit,
               numberOfPages |-> CeilDiv(countDocuments, limit)]
      withNext == IF endIndex < countDocuments
                    THEN base @@ [nextPage |-> page + 1] ELSE base
      paginationResults == IF skip > 0
                             THEN withNext @@ [previousPage |-> page - 1] ELSE withNext
  IN  [f EXCEPT !.paginationResults = paginationResults,
                !.mongooseQuery.skip = skip,
                !.mongooseQuery.limit = limit]

(***************************************************************************)
(* ApiFeatures.filter on its own: the parameters are drawn in the initial  *)
(* state and filter() is applied to a query without conditions.            *)
(***************************************************************************)
(* The parameters a list request uses for paging, sorting, projection and
   search, with one sample value each. *)
ReservedParameters == {S_page, S_sort, S_limit, S_fields, S_keyword}

ReservedSamples ==
  [k \in ReservedParameters |->
     CASE k = S_page -> S_2 [] k = S_limit -> S_10 [] k = S_sort -> S_neg_createdAt
       [] k = S_fields -> S_title [] k = S_keyword -> S_x]

FilterKeys == {S_category, S_in, S_price}

FilterValues == BoundedStrings \cup {S_photography, S_in}

NestedOperators == {S_gte, S_lte, S_gt, S_lt, S_in, S_ne}

(* A subset of the reserved parameters, one plain parameter and at most one
   nested parameter. *)
FilterQueries ==
  {[k \in R \cup {pk} \cup nk |->
      IF k \in R THEN Plain(ReservedSamples[k])
      ELSE IF k = pk THEN Plain(v)
      ELSE Nested(o, S_10)] :
     R \in SUBSET ReservedParameters, pk \in FilterKeys \ {S_price}, v \in FilterValues,
     nk \in {{}, {S_price}}, o \in NestedOperators}

NoResponse == [handler |-> "none", status |-> 0]

(* The list endpoints read the fixture collections and write nothing: the
   documents written by the other endpoints are in db. *)
NoDb == <<>>

InitFilter ==
  /\ pc = "start"
  /\ req \in {[handler |-> "filter", query |-> q] : q \in FilterQueries}
  /\ feat = NewApiFeatures(Find("Upload", NoConds), req.query)
  /\ res = NoResponse
  /\ db = NoDb

Filter ==
  /\ pc = "start"
  /\ req.handler = "filter"
  /\ feat' = filter(feat)
  /\ pc' = "done"
  /\ UNCHANGED <<req, res, db>>

NextFilter == Filter

SpecFilter == InitFilter /\ [][NextFilter]_vars

(***************************************************************************)
(* The document store. A document is a function from path to value; the    *)
(* schema gives each path its type. The collections are fixtures.          *)
(***************************************************************************)
S_Sunset == <<"S", "u", "n", "s", "e", "t">>
S_sea == <<"s", "e", "a">>
S_sun_rise == <<"s", "u", "n", " ", "r", "i", "s", "e">>
S_hill == <<"h", "i", "l", "l">>
S_sky == <<"s", "k", "y">>
S_SUN == <<"S", "U", "N">>
S_Sun == <<"S", "u", "n">>
S_Ali == <<"A", "l", "i">>
S_Sam == <<"S", "a", "m">>
S_sun == <<"s", "u", "n">>
S_mail_sun == <<"s", "u", "n", "@", "x">>
S_mail_a == <<"a", "@", "x">>
S_mail_b == <<"b", "@", "x">>

Record(paths, values) ==
  [p \in {paths[i] : i \in DOMAIN paths} |->
     values[CHOOSE i \in DOMAIN paths : paths[i] = p]]

UploadPaths ==
  <<S_title, S_description, S_tags, S_category, S_status, S_price, S_featured,
    S_fileType, S_user, S_createdAt>>

UploadTypes ==
  Record(UploadPaths,
         <<"String", "String", "Strings", "String", "String", "Number", "Boolean",
           "String", "ObjectId", "Date">>)

Uploads ==
  <<Record(UploadPaths, <<S_Sunset, S_sky, {S_sea}, S_photography, S_approved, 10,
                          TRUE, S_image, 1, 1>>),
    Record(UploadPaths, <<S_sea, S_sun_rise, {}, S_video, S_approved, 20,
                          FALSE, S_video, 2, 2>>),
    Record(UploadPaths, <<S_hill, S_sky, {S_sun}, S_photography, S_pending, 30,
                          FALSE, S_image, 1, 3>>),
    Record(UploadPaths, <<S_hill, S_sea, {}, S_photography, S_approved, 20,
                          FALSE, S_image, 2, 4>>),
    Record(UploadPaths, <<S_SUN, S_sky, {S_sky}, S_video, S_rejected, 5,
                          FALSE, S_video, 1, 5>>)>>

UserPaths == <<S_firstName, S_lastName, S_email, S_role, S_createdAt>>

UserTypes == Record(UserPaths, <<"String", "String", "String", "String", "Date">>)

Users ==
  <<Record(UserPaths, <<S_Sun, S_hill, S_mail_a, S_admin, 1>>),
    Record(UserPaths, <<S_Ali, S_sea, S_mail_sun, S_user, 2>>),
    Record(UserPaths, <<S_Sam, S_sky, S_mail_b, S_user, 3>>),
    Record(UserPaths, <<S_Ali, S_hill, S_mail_b, S_partner, 4>>)>>

S_ord1 == <<"O", "R", "D", "-", "1">>
S_ord2 == <<"O", "R", "D", "-", "2">>
S_ord3 == <<"O", "R", "D", "-", "3">>
S_ord4 == <<"O", "R", "D", "-", "4">>

OrderPaths == <<S_orderNumber, S_customer, S_status, S_createdAt>>

OrderTypes == Record(OrderPaths, <<"String", "ObjectId", "String", "Date">>)

Orders ==
  <<Record(OrderPaths, <<S_ord1, 1, S_pending, 1>>),
    Record(OrderPaths, <<S_ord2, 1, S_paid, 2>>),
    Record(OrderPaths, <<S_ord3, 2, S_paid, 3>>),
    Record(OrderPaths, <<S_ord4, 1, S_paid, 4>>)>>

S_completed == <<"c", "o", "m", "p", "l", "e", "t", "e", "d">>

MissionPaths == <<S_title, S_assignedTo, S_status, S_scheduledDate>>

MissionTypes == Record(MissionPaths, <<"String", "ObjectId", "String", "Date">>)

Missions ==
  <<Record(MissionPaths, <<S_hill, 1, S_assigned, 4>>),
    Record(MissionPaths, <<S_sea, 1, S_completed, 3>>),
    Record(MissionPaths, <<S_sky, 2, S_assigned, 2>>),
    Record(MissionPaths, <<S_sun, 1, S_assigned, 1>>)>>

NotificationPaths == <<S_user, S_title, S_type, S_priority, S_isRead, S_createdAt>>

NotificationTypes ==
  Record(NotificationPaths, <<"ObjectId", "String", "String", "String", "Boolean", "Date">>)

Notifications ==
  <<Record(NotificationPaths, <<1, S_hill, S_system, S_high, FALSE, 1>>),
    Record(NotificationPaths, <<1, S_sea, S_upload, S_low, TRUE, 2>>),
    Record(NotificationPaths, <<2, S_sky, S_system, S_low, FALSE, 3>>),
    Record(NotificationPaths, <<1, S_sun, S_upload, S_high, FALSE, 4>>)>>

Collection(model) ==
  CASE model = "Upload" -> Uploads
    [] model = "User" -> Users
    [] model = "Order" -> Orders
    [] model = "Mission" -> Missions
    [] model = "Notification" -> Notifications

Schema(model) ==
  CASE model = "Upload" -> UploadTypes
    [] model = "User" -> UserTypes
    [] model = "Order" -> OrderTypes
    [] model = "Mission" -> MissionTypes
    [] model = "Notification" -> NotificationTypes

InSchema(model, path) == path \in DOMAIN Schema(model)

(* Letters of the fixtures and keywords that have an upper case. *)
ToLowerChar(c) ==
  CASE c = "S" -> "s" [] c = "U" -> "u" [] c = "N" -> "n" [] c = "A" -> "a"
    [] c = "T" -> "t" [] c = "G" -> "g" [] c = "E" -> "e"
    [] OTHER -> c

ToLower(s) == [i \in 1..Len(s) |-> ToLowerChar(s[i])]

(* The pattern s, read as a regular expression with the option "i", matches
   somewhere in text. The patterns of the model hold letters, digits, blanks,
   "-" and "@", which match themselves, and ".", which matches any character. *)
RegexMatchAt(text, s, at) ==
  /\ at + Len(s) - 1 <= Len(text)
  /\ \A i \in 1..Len(s) :
       s[i] = "." \/ ToLowerChar(s[i]) = ToLowerChar(text[at + i - 1])

RegexTest(text, s) == \E at \in 1..(Len(text) + 1) : RegexMatchAt(text, s, at)

(* A $regex condition on a path: an array matches when one element does. *)
RegexOnPath(model, d, path, s) ==
  IF Schema(model)[path] = "Strings" THEN \E e \in d[path] : RegexTest(e, s)
  ELSE IF Schema(model)[path] = "String" THEN RegexTest(d[path], s)
  ELSE FALSE

RECURSIVE Tokens(_)
(* s.split(/\s+/) without the empty strings *)
Tokens(s) ==
  LET t == TrimStart(s)
      n == IF \E i \in 1..Len(t) : t[i] = " "
             THEN (CHOOSE i \in 1..Len(t) : t[i] = " " /\ \A j \in 1..(i - 1) : t[j] # " ") - 1
             ELSE Len(t)
  IN  IF t = Empty THEN <<>>
      ELSE <<SubSeq(t, 1, n)>> \o Tokens(SubSeq(t, n + 1, Len(t)))

Words(text) == {ToLower(Tokens(text)[i]) : i \in DOMAIN Tokens(text)}

(* $text search over the text index of the uploads (title, description, tags):
   a document matches when one term of the search string is one of its words.
   Stemming and stop words are not modelled. *)
TextIndexed(model) == IF model = "Upload" THEN {S_title, S_description, S_tags} ELSE {}

DocWords(model, d) ==
  UNION {IF Schema(model)[p] = "Strings" THEN UNION {Words(e) : e \in d[p]} ELSE Words(d[p]) :
           p \in TextIndexed(model)}

TextMatch(model, d, s) == Words(s) \cap DocWords(model, d) # {}

NumericOperators ==
  {<<"$", "g", "t">>, <<"$", "g", "t", "e">>, <<"$", "l", "t">>, <<"$", "l", "t", "e">>}

IsNumericPath(model, path) == Schema(model)[path] \in {"Number", "Date"}

(* Mongoose casts the condition to the type of the path and fails on a value it
   cannot cast; the server refuses an unknown top-level operator. With
   strictQuery a condition on a path outside the schema is dropped. *)
CondError(model, strictQuery, key, v) ==
  IF key = S_or \/ key = S_text THEN FALSE
  ELSE IF ~InSchema(model, key)
       THEN ~strictQuery /\ key # Empty /\ key[1] = "$"
  ELSE CASE v.kind = "string" ->
              /\ IsNumericPath(model, key) \/ Schema(model)[key] = "ObjectId"
              /\ ToNumber(v.s).nan
         [] v.kind = "object" ->
              \/ ~IsNumericPath(model, key)
              \/ \E o \in DOMAIN v.fields :
                   o \notin NumericOperators \/ ToNumber(v.fields[o]).nan
         [] v.kind = "range" -> \E b \in DOMAIN v.fields : v.fields[b].set /\ v.fields[b].nan
         [] OTHER -> FALSE

Compare(o, x, y) ==
  CASE o = <<"$", "g", "t">> -> x > y
    [] o = <<"$", "g", "t", "e">> -> x >= y
    [] o = <<"$", "l", "t">> -> x < y
    [] o = <<"$", "l", "t", "e">> -> x <= y

(* The document d satisfies the condition v on key. *)
Satisfies(model, strictQuery, d, key, v) ==
  IF key = S_or
  THEN \E p \in v.paths :
         IF InSchema(model, p) THEN RegexOnPath(model, d, p, v.s) ELSE strictQuery
  ELSE IF key = S_text THEN TextMatch(model, d, v.s)
  ELSE IF ~InSchema(model, key) THEN strictQuery
  ELSE CASE v.kind = "string" ->
              IF IsNumericPath(model, key) \/ Schema(model)[key] = "ObjectId"
              THEN d[key] = ToNumber(v.s).n
              ELSE IF Schema(model)[key] = "Strings" THEN v.s \in d[key]
              ELSE d[key] = v.s
         [] v.kind = "object" ->
              \A o \in DOMAIN v.fields : Compare(o, d[key], ToNumber(v.fields[o]).n)
         [] v.kind = "range" ->
              /\ v.fields["lo"].set => d[key] >= v.fields["lo"].n
              /\ v.fields["hi"].set => d[key] <= v.fields["hi"].n
         [] v.kind = "regex" -> RegexOnPath(model, d, key, v.s)
         [] v.kind = "number" -> d[key] = v.n
         [] v.kind = "bool" -> d[key] = v.b
         [] v.kind = "in" -> d[key] \in v.set

(* The ids (positions in the collection) of the documents matching conds. *)
Matching(model, strictQuery, conds) ==
  {id \in DOMAIN Collection(model) :
     \A key \in DOMAIN conds :
       Satisfies(model, strictQuery, Collection(model)[id], key, conds[key])}

(* Model.countDocuments(conds) *)
CountDocuments(model, strictQuery, conds) == Cardinality(Matching(model, strictQuery, conds))

(* The sort keys of a sort string: "-price createdAt" is price descending,
   then createdAt ascending. *)
SortKeys(sortBy) ==
  LET ts == Tokens(sortBy)
  IN  [i \in DOMAIN ts |->
         IF Head(ts[i]) = "-" THEN [path |-> Tail(ts[i]), dir |-> -1]
         ELSE [path |-> ts[i], dir |-> 1]]

(* The value a document is ordered by: only numbers and dates order the
   fixtures; a path that is missing or of another type orders nothing. *)
SortValue(model, d, path) ==
  IF InSchema(model, path) /\ IsNumericPath(model, path) THEN d[path] ELSE 0

RECURSIVE Before(_, _, _, _)
(* Document a comes before b in the order of keys; ties keep the natural
   (insertion) order. *)
Before(model, a, b, keys) ==
  IF keys = <<>> THEN a < b
  ELSE LET k == Head(keys)
           x == SortValue(model, Collection(model)[a], k.path)
           y == SortValue(model, Collection(model)[b], k.path)
       IN  IF x = y THEN Before(model, a, b, Tail(keys))
           ELSE IF k.dir = 1 THEN x < y ELSE x > y

Sorted(model, ids, sortBy) ==
  LET keys == SortKeys(sortBy)
  IN  [i \in 1..Cardinality(ids) |->
         CHOOSE a \in ids : Cardinality({b \in ids : Before(model, b, a, keys)}) = i - 1]

(* cursor.skip(n).limit(m): limit 0 is no limit, and a negative limit -m
   returns a single batch of at most m documents. *)
SkipLimit(docs, skip, limit) ==
  LET rest == SubSeq(docs, skip + 1, Len(docs))
      m == IF limit < 0 THEN 0 - limit ELSE limit
  IN  IF m = 0 \/ m >= Len(rest) THEN rest ELSE SubSeq(rest, 1, m)

(* The server refuses a negative skip. *)
QueryError(q, strictQuery) ==
  \/ q.skip < 0
  \/ \E key \in DOMAIN q.conds : CondError(q.model, strictQuery, key, q.conds[key])

(* await mongooseQuery: filter, sort, skip, limit, whatever the order in which
   the query was built. *)
Exec(q, strictQuery) ==
  IF QueryError(q, strictQuery) THEN [error |-> TRUE, docs |-> <<>>]
  ELSE [error |-> FALSE,
        docs |-> SkipLimit(Sorted(q.model, Matching(q.model, strictQuery, q.conds), q.sortBy),
                           q.skip, q.limit)]

(***************************************************************************)
(* Requests. Absent marks a parameter the request does not carry.          *)
(***************************************************************************)
Absent == <<"undefined">>

(* req.query from a sequence of <<key, nested operator, value>>. *)
Query(entries) ==
  LET present == {i \in DOMAIN entries : entries[i][3] # Absent}
  IN  [k \in {entries[i][1] : i \in present} |->
         LET i == CHOOSE j \in present : entries[j][1] = k
         IN  Nested(entries[i][2], entries[i][3])]

DigitChar(d) ==
  CASE d = 0 -> "0" [] d = 1 -> "1" [] d = 2 -> "2" [] d = 3 -> "3" [] d = 4 -> "4"
    [] d = 5 -> "5" [] d = 6 -> "6" [] d = 7 -> "7" [] d = 8 -> "8" [] d = 9 -> "9"

RECURSIVE NatToString(_)
NatToString(n) ==
  IF n < 10 THEN <<DigitChar(n)>> ELSE Append(NatToString(n \div 10), DigitChar(n % 10))

(* The decimal text of an integer, as a client writes it in the URL. *)
IntToString(n) == IF n < 0 THEN <<"-">> \o NatToString(0 - n) ELSE NatToString(n)

(***************************************************************************)
(* express-validator checks of the routes.                                 *)
(***************************************************************************)
(* isInt({ min, max }): an optional sign and decimal digits without a
   leading zero, within the range. *)
IsInt(s, min, hasMax, max) ==
  LET body == IF s # Empty /\ Head(s) \in {"-", "+"} THEN Tail(s) ELSE s
  IN  /\ body # Empty
      /\ AllDigits(body)
      /\ Len(body) > 1 => Head(body) # "0"
      /\ ToNumber(s).n >= min
      /\ hasMax => ToNumber(s).n <= max

(* query(k).optional().<check>: a parameter that is absent passes. *)
Optional(q, k, ok(_)) == Has(q, k) => (IsPlain(q, k) /\ ok(q[k].s))

MaxValidLimit == 100

S_suspended == <<"s", "u", "s", "p", "e", "n", "d", "e", "d">>
S_graphics == <<"g", "r", "a", "p", "h", "i", "c", "s">>
S_illustration == <<"i", "l", "l", "u", "s", "t", "r", "a", "t", "i", "o", "n">>
S_other == <<"o", "t", "h", "e", "r">>
S_1 == <<"1">>
S_0 == <<"0">>

SortableFields ==
  {S_createdAt, S_title, S_price, S_views, <<"d", "o", "w", "n", "l", "o", "a", "d", "s">>,
   <<"l", "i", "k", "e", "s">>}

getUploadsValidator(q) ==
  /\ Optional(q, S_page, LAMBDA s : IsInt(s, 1, FALSE, 0))
  /\ Optional(q, S_limit, LAMBDA s : IsInt(s, 1, TRUE, MaxValidLimit))
  /\ Optional(q, S_status, LAMBDA s : s \in {S_pending, S_approved, S_rejected, S_suspended})
  /\ Optional(q, S_category,
              LAMBDA s : s \in {S_photography, S_video, S_graphics, S_illustration, S_other})
  /\ Optional(q, S_fileType, LAMBDA s : s \in {S_image, S_video})
  /\ Optional(q, S_featured, LAMBDA s : s \in {S_true, S_false, S_1, S_0})
  /\ Optional(q, S_sort,
              LAMBDA s : s \in SortableFields \cup {<<"-">> \o f : f \in SortableFields})

(* allowedTo(...roles) *)
allowedTo(roles, role) == role \in roles

(***************************************************************************)
(* The factory handlers.                                                   *)
(***************************************************************************)
Forbidden(handler) == [handler |-> handler, status |-> 403]

BadRequest(handler) == [handler |-> handler, status |-> 400]

ServerError(handler) == [handler |-> handler, status |-> 500]

(* The ApiFeatures object getAll builds for a request. *)
getAllFeatures(Model, q) ==
  LET countDocuments == Len(Collection(Model))
  IN  paginate(sort(filter(limitFields(search(NewApiFeatures(Find(Model, NoConds), q),
                                              Model)))),
               countDocuments)

(* factory.getAll(Model): the response to a request. *)
getAll(handler, Model, r) ==
  LET apiFeature == getAllFeatures(Model, r.query)
      documents == Exec(apiFeature.mongooseQuery, r.strictQuery)
  IN  IF documents.error THEN ServerError(handler)
      ELSE [handler |-> handler, status |-> 200, results |-> Len(documents.docs),
            paginationResults |-> apiFeature.paginationResults, data |-> documents.docs]

(* factory.searchDocuments(Model, searchFields): the query it runs and the
   response. page and limit are the strings of the request or the numbers 1
   and 10; arithmetic turns a string into a number. *)
S_q == <<"q">>
S_active == <<"a", "c", "t", "i", "v", "e">>
S_published == <<"p", "u", "b", "l", "i", "s", "h", "e", "d">>

DefaultSearchLimit == 10

ListResponse(handler, docs, page, limit, total, pages) ==
  [handler |-> handler, status |-> 200, data |-> docs, page |-> page, limit |-> limit,
   total |-> total, pages |-> pages]

(* Math.ceil(total / limit) as the JSON response carries it: a division by 0
   gives Infinity or NaN, which JSON.stringify writes as null. *)
Pages(total, limit) == IF limit = 0 THEN "null" ELSE CeilDiv(total, limit)

(* A parameter read with a default and used as a number. *)
NumberOrDefault(q, k, d) == IF Has(q, k) THEN NumberOf(q, k) ELSE Num(d)

(* parseInt of a parameter read with a default. *)
ParseIntOrDefault(q, k, d) == IF Has(q, k) THEN ParseIntOf(q, k) ELSE Num(d)

searchDocumentsRejects(q) == ~Truthy(q, S_q) \/ (IsPlain(q, S_q) /\ Trim(q[S_q].s) = Empty)

searchDocumentsConds(Model, searchFields, q) ==
  LET searchConditions == OrRegex(searchFields, q[S_q].s)
      withStatus == InSchema(Model, S_status)
  IN  [k \in {S_or} \cup (IF withStatus THEN {S_status} ELSE {}) |->
         IF k = S_or THEN searchConditions ELSE InValue({S_approved, S_active, S_published})]

searchDocumentsQuery(Model, searchFields, q) ==
  LET page == NumberOrDefault(q, S_page, 1)
      limit == NumberOrDefault(q, S_limit, DefaultSearchLimit)
  IN  [Find(Model, searchDocumentsConds(Model, searchFields, q)) EXCEPT
         !.skip = (page.n - 1) * limit.n,
         !.limit = ParseIntOrDefault(q, S_limit, DefaultSearchLimit).n,
         !.sortBy = S_neg_createdAt]

searchDocuments(handler, Model, searchFields, r) ==
  LET q == r.query
      results == Exec(searchDocumentsQuery(Model, searchFields, q), r.strictQuery)
      totalResults == CountDocuments(Model, r.strictQuery,
                                     searchDocumentsConds(Model, searchFields, q))
      limit == NumberOrDefault(q, S_limit, DefaultSearchLimit)
  IN  IF results.error \/ limit.nan THEN ServerError(handler)
      ELSE ListResponse(handler, results.docs, ParseIntOrDefault(q, S_page, 1).n,
                        ParseIntOrDefault(q, S_limit, DefaultSearchLimit).n,
                        totalResults, Pages(totalResults, limit.n))

(* isLength({ min }) *)
searchUploadsValidator(q) ==
  /\ IsPlain(q, S_q) /\ q[S_q].s # Empty /\ Len(q[S_q].s) >= 2
  /\ Optional(q, S_page, LAMBDA s : IsInt(s, 1, FALSE, 0))
  /\ Optional(q, S_limit, LAMBDA s : IsInt(s, 1, TRUE, MaxValidLimit))
  /\ Optional(q, S_category,
              LAMBDA s : s \in {S_photography, S_video, S_graphics, S_illustration, S_other})

(***************************************************************************)
(* The resource-specific list handlers. Each gives the query that selects  *)
(* the items, the filter it counts with, and the response.                 *)
(***************************************************************************)
Conds(entries) ==
  LET present == {i \in DOMAIN entries : entries[i][1]}
  IN  [k \in {entries[i][2] : i \in present} |->
         entries[CHOOSE i \in present : entries[i][2] = k][3]]

PageOf(q, d) == OrDefault(ParseIntOf(q, S_page), d)

LimitOf(q, d) == OrDefault(ParseIntOf(q, S_limit), d)

Paged(query, page, limit) == [query EXCEPT !.limit = limit, !.skip = (page - 1) * limit]

Listed(handler, query, strictQuery, page, limit, total) ==
  LET items == Exec(query, strictQuery)
  IN  IF items.error THEN ServerError(handler)
      ELSE ListResponse(handler, items.docs, page, limit, total, Pages(total, limit))

StringOf(q, k) == IF IsPlain(q, k) THEN q[k].s ELSE Empty

DefaultOrdersLimit == 10
DefaultListLimit == 20

(* Order.findByCustomer(customerId, { page, limit, status }) *)
findByCustomer(customerId, page, limit, q) ==
  Paged([Find("Order", Conds(<<<<TRUE, S_customer, NumberValue(customerId)>>,
                                <<Truthy(q, S_status), S_status, StringValue(StringOf(q, S_status))>>>>))
           EXCEPT !.sortBy = S_neg_createdAt],
        page, limit)

getUserOrdersCount(r) ==
  Conds(<<<<TRUE, S_customer, NumberValue(r.user)>>,
          <<Truthy(r.query, S_status), S_status, StringValue(StringOf(r.query, S_status))>>>>)

getUserOrdersQuery(r) ==
  findByCustomer(r.user, PageOf(r.query, 1), LimitOf(r.query, DefaultOrdersLimit), r.query)

getUserOrdersResponse(r) ==
  Listed("getUserOrders", getUserOrdersQuery(r), r.strictQuery, PageOf(r.query, 1),
         LimitOf(r.query, DefaultOrdersLimit),
         CountDocuments("Order", r.strictQuery, getUserOrdersCount(r)))

S_search == <<"s", "e", "a", "r", "c", "h">>

getAllOrdersConds(q) ==
  Conds(<<<<Truthy(q, S_status), S_status, StringValue(StringOf(q, S_status))>>,
          <<Truthy(q, S_search), S_orderNumber, RegexValue(StringOf(q, S_search))>>>>)

getAllOrdersQuery(r) ==
  Paged([Find("Order", getAllOrdersConds(r.query)) EXCEPT !.sortBy = S_neg_createdAt],
        PageOf(r.query, 1), LimitOf(r.query, DefaultListLimit))

getAllOrdersResponse(r) ==
  Listed("getAllOrders", getAllOrdersQuery(r), r.strictQuery, PageOf(r.query, 1),
         LimitOf(r.query, DefaultListLimit),
         CountDocuments("Order", r.strictQuery, getAllOrdersConds(r.query)))

(* Mission.findByPartner(partnerId, status) *)
findByPartner(partnerId, q) ==
  [Find("Mission", Conds(<<<<TRUE, S_assignedTo, NumberValue(partnerId)>>,
                           <<Truthy(q, S_status), S_status, StringValue(StringOf(q, S_status))>>>>))
     EXCEPT !.sortBy = S_scheduledDate]

getPartnerMissionsCount(r) ==
  Conds(<<<<TRUE, S_assignedTo, NumberValue(r.user)>>,
          <<Truthy(r.query, S_status), S_status, StringValue(StringOf(r.query, S_status))>>>>)

getPartnerMissionsQuery(r) ==
  Paged(findByPartner(r.user, r.query), PageOf(r.query, 1), LimitOf(r.query, DefaultOrdersLimit))

getPartnerMissionsResponse(r) ==
  IF r.role # S_partner THEN Forbidden("getPartnerMissions")
  ELSE Listed("getPartnerMissions", getPartnerMissionsQuery(r), r.strictQuery,
              PageOf(r.query, 1), LimitOf(r.query, DefaultOrdersLimit),
              CountDocuments("Mission", r.strictQuery, getPartnerMissionsCount(r)))

(* Notification.getForUser(userId, options) *)
getForUser(userId, page, limit, q) ==
  Paged([Find("Notification",
              Conds(<<<<TRUE, S_user, NumberValue(userId)>>,
                      <<Truthy(q, S_type), S_type, StringValue(StringOf(q, S_type))>>,
                      <<Has(q, S_isRead), S_isRead, BoolValue(StringOf(q, S_isRead) = S_true)>>,
                      <<Truthy(q, S_priority), S_priority, StringValue(StringOf(q, S_priority))>>>>))
           EXCEPT !.sortBy = S_neg_createdAt],
        page, limit)

getNotificationsCount(r) == Conds(<<<<TRUE, S_user, NumberValue(r.user)>>>>)

getNotificationsQuery(r) ==
  getForUser(r.user, ParseIntOrDefault(r.query, S_page, 1).n,
             ParseIntOrDefault(r.query, S_limit, DefaultListLimit).n, r.query)

getNotificationsResponse(r) ==
  LET page == ParseIntOrDefault(r.query, S_page, 1)
      limit == NumberOrDefault(r.query, S_limit, DefaultListLimit)
  IN  IF page.nan \/ limit.nan THEN ServerError("getNotifications")
      ELSE Listed("getNotifications", getNotificationsQuery(r), r.strictQuery, page.n,
                  limit.n, CountDocuments("Notification", r.strictQuery,
                                          getNotificationsCount(r)))

S_minPrice == <<"m", "i", "n", "P", "r", "i", "c", "e">>
S_maxPrice == <<"m", "a", "x", "P", "r", "i", "c", "e">>

(* A bound of a price range: parseFloat of the parameter, when it is given. *)
Bound(q, k) ==
  IF Truthy(q, k) THEN [set |-> TRUE, nan |-> ParseIntOf(q, k).nan, n |-> ParseIntOf(q, k).n]
  ELSE [set |-> FALSE, nan |-> FALSE, n |-> 0]

PriceRange(q) == RangeValue(Bound(q, S_minPrice), Bound(q, S_maxPrice))

getFilteredUploadsFilter(r) ==
  LET q == r.query
      admin == r.role \in {S_admin, S_master}
  IN  Conds(<<<<~admin \/ Truthy(q, S_status), S_status,
                IF admin THEN StringValue(StringOf(q, S_status)) ELSE StringValue(S_approved)>>,
              <<Truthy(q, S_category), S_category, StringValue(StringOf(q, S_category))>>,
              <<Truthy(q, S_fileType), S_fileType, StringValue(StringOf(q, S_fileType))>>,
              <<Truthy(q, S_featured), S_featured, BoolValue(StringOf(q, S_featured) = S_true)>>,
              <<Truthy(q, S_user), S_user, StringValue(StringOf(q, S_user))>>,
              <<Truthy(q, S_minPrice) \/ Truthy(q, S_maxPrice), S_price, PriceRange(q)>>>>)

getFilteredUploadsQuery(r) ==
  Paged([Find("Upload", getFilteredUploadsFilter(r)) EXCEPT
           !.sortBy = IF Truthy(r.query, S_sort) THEN StringOf(r.query, S_sort)
                      ELSE S_neg_createdAt],
        PageOf(r.query, 1), LimitOf(r.query, DefaultListLimit))

getFilteredUploadsResponse(r) ==
  Listed("getFilteredUploads", getFilteredUploadsQuery(r), r.strictQuery, PageOf(r.query, 1),
         LimitOf(r.query, DefaultListLimit),
         CountDocuments("Upload", r.strictQuery, getFilteredUploadsFilter(r)))

S_sortBy == <<"s", "o", "r", "t", "B", "y">>
S_sortOrder == <<"s", "o", "r", "t", "O", "r", "d", "e", "r">>
S_asc == <<"a", "s", "c">>
S_popularity == <<"p", "o", "p", "u", "l", "a", "r", "i", "t", "y">>
S_popularitySort ==
  <<"-", "v", "i", "e", "w", "s", " ", "-", "d", "o", "w", "n", "l", "o", "a", "d", "s", " ",
    "-", "l", "i", "k", "e", "s">>

getGalleryConds(q) ==
  Conds(<<<<TRUE, S_status, StringValue(S_approved)>>,
          <<Truthy(q, S_category), S_category, StringValue(StringOf(q, S_category))>>,
          <<Truthy(q, S_fileType), S_fileType, StringValue(StringOf(q, S_fileType))>>,
          <<StringOf(q, S_featured) = S_true, S_featured, BoolValue(TRUE)>>,
          <<Truthy(q, S_minPrice) \/ Truthy(q, S_maxPrice), S_price, PriceRange(q)>>>>)

getGallerySort(q) ==
  LET sortBy == IF Truthy(q, S_sortBy) THEN StringOf(q, S_sortBy) ELSE S_createdAt
      descending == StringOf(q, S_sortOrder) # S_asc
  IN  IF sortBy = S_popularity THEN S_popularitySort
      ELSE IF descending THEN <<"-">> \o sortBy ELSE sortBy

getGalleryQuery(r) ==
  Paged([Find("Upload", getGalleryConds(r.query)) EXCEPT !.sortBy = getGallerySort(r.query)],
        PageOf(r.query, 1), LimitOf(r.query, DefaultListLimit))

getGalleryResponse(r) ==
  Listed("getGallery", getGalleryQuery(r), r.strictQuery, PageOf(r.query, 1),
         LimitOf(r.query, DefaultListLimit),
         CountDocuments("Upload", r.strictQuery, getGalleryConds(r.query)))

(* Upload.searchUploads(query, filters): the order by text score is left as
   the natural order. *)
UploadSearchUploads(query, filters) ==
  Find("Upload",
       MergeConds(Conds(<<<<TRUE, S_text, TextValue(query)>>,
                          <<TRUE, S_status, StringValue(S_approved)>>>>), filters))

gallerySearchFilters(q) ==
  Conds(<<<<Truthy(q, S_category), S_category, StringValue(StringOf(q, S_category))>>,
          <<Truthy(q, S_fileType), S_fileType, StringValue(StringOf(q, S_fileType))>>>>)

gallerySearchRejects(q) == ~Truthy(q, S_q)

gallerySearchQuery(r) ==
  Paged(UploadSearchUploads(StringOf(r.query, S_q), gallerySearchFilters(r.query)),
        PageOf(r.query, 1), LimitOf(r.query, DefaultListLimit))

gallerySearchResponse(r) ==
  LET uploads == Exec(gallerySearchQuery(r), r.strictQuery)
      total == Len(uploads.docs)
      limit == LimitOf(r.query, DefaultListLimit)
  IN  IF uploads.error THEN ServerError("gallerySearchUploads")
      ELSE ListResponse("gallerySearchUploads", uploads.docs, PageOf(r.query, 1), limit,
                        total, CeilDiv(total, limit))

(***************************************************************************)
(* List requests: the request is drawn in the initial state and the        *)
(* handler of its route answers it.                                        *)
(***************************************************************************)
MaxPage == 3
MaxLimit == 2

S_20 == <<"2", "0">>
S_neg_price_createdAt == <<"-", "p", "r", "i", "c", "e", ",", "c", "r", "e", "a", "t", "e", "d", "A", "t">>
S_blank == <<" ">>

PageOptions == {Absent} \cup {IntToString(n) : n \in -1..MaxPage}

LimitOptions == {Absent} \cup {IntToString(n) : n \in -2..MaxLimit}

KeywordOptions == {Absent, Empty, S_blank, S_sun}

Roles == {S_user, S_admin}

GetAllQueries(filterKey, filterOptions) ==
  {Query(<<<<S_page, Empty, p>>, <<S_limit, Empty, l>>, <<S_keyword, Empty, kw>>,
           <<filterKey, Empty, f>>, <<S_sort, Empty, s>>, <<S_price, S_gte, g>>>>) :
     p \in PageOptions, l \in LimitOptions, kw \in KeywordOptions, f \in filterOptions,
     s \in {Absent, S_createdAt, S_neg_price_createdAt}, g \in {Absent, S_20}}

Requests(handler, queries) ==
  {[handler |-> handler, role |-> role, user |-> 1, strictQuery |-> strict, query |-> q] :
     role \in Roles, strict \in BOOLEAN, q \in queries}

GetUsersRequests == Requests("getUsers", GetAllQueries(S_role, {Absent, S_admin, S_in}))

GetUploadsRequests ==
  Requests("getUploads", GetAllQueries(S_category, {Absent, S_photography, S_in}))

S_2blanks == <<" ", " ">>

SearchOptions == {Absent, Empty, S_blank, S_2blanks, S_sun, S_sea}

ListRequests(handler, roles, users, queries) ==
  {[handler |-> handler, role |-> role, user |-> u, strictQuery |-> FALSE, query |-> q] :
     role \in roles, u \in users, q \in queries}

SearchUploadsRequests ==
  ListRequests("searchUploads", {Absent}, {1},
    {Query(<<<<S_q, Empty, k>>, <<S_page, Empty, p>>, <<S_limit, Empty, l>>>>) :
       k \in SearchOptions, p \in PageOptions, l \in LimitOptions})

GallerySearchRequests ==
  ListRequests("gallerySearchUploads", {Absent}, {1},
    {Query(<<<<S_q, Empty, k>>, <<S_page, Empty, p>>, <<S_limit, Empty, l>>,
             <<S_category, Empty, c>>>>) :
       k \in SearchOptions, p \in PageOptions, l \in LimitOptions,
       c \in {Absent, S_photography}})

GetUserOrdersRequests ==
  ListRequests("getUserOrders", {S_user}, {1, 2},
    {Query(<<<<S_status, Empty, s>>, <<S_page, Empty, p>>, <<S_limit, Empty, l>>>>) :
       s \in {Absent, S_paid}, p \in PageOptions, l \in LimitOptions})

S_ord == <<"o", "r", "d">>

GetAllOrdersRequests ==
  ListRequests("getAllOrders", Roles, {1},
    {Query(<<<<S_status, Empty, s>>, <<S_search, Empty, k>>, <<S_page, Empty, p>>,
             <<S_limit, Empty, l>>>>) :
       s \in {Absent, S_paid}, k \in {Absent, S_ord, S_2}, p \in PageOptions,
       l \in LimitOptions})

GetPartnerMissionsRequests ==
  ListRequests("getPartnerMissions", {S_partner, S_user}, {1, 2},
    {Query(<<<<S_status, Empty, s>>, <<S_page, Empty, p>>, <<S_limit, Empty, l>>>>) :
       s \in {Absent, S_assigned}, p \in PageOptions, l \in LimitOptions})

GetNotificationsRequests ==
  ListRequests("getNotifications", {S_user}, {1, 2},
    {Query(<<<<S_type, Empty, ty>>, <<S_isRead, Empty, rd>>, <<S_priority, Empty, pr>>,
             <<S_page, Empty, p>>, <<S_limit, Empty, l>>>>) :
       ty \in {Absent, S_system}, rd \in {Absent, S_true, S_false}, pr \in {Absent, S_high},
       p \in PageOptions, l \in LimitOptions})

GetFilteredUploadsRequests ==
  ListRequests("getFilteredUploads", {Absent}, {1},
    {Query(<<<<S_status, Empty, s>>, <<S_category, Empty, c>>, <<S_minPrice, Empty, m>>,
             <<S_sort, Empty, o>>, <<S_page, Empty, p>>, <<S_limit, Empty, l>>>>) :
       s \in {Absent, S_pending}, c \in {Absent, S_photography}, m \in {Absent, S_20},
       o \in {Absent, S_price}, p \in PageOptions, l \in LimitOptions})

GetGalleryRequests ==
  ListRequests("getGallery", {Absent}, {1},
    {Query(<<<<S_category, Empty, c>>, <<S_featured, Empty, f>>, <<S_maxPrice, Empty, m>>,
             <<S_sortBy, Empty, o>>, <<S_sortOrder, Empty, d>>, <<S_page, Empty, p>>,
             <<S_limit, Empty, l>>>>) :
       c \in {Absent, S_photography}, f \in {Absent, S_true}, m \in {Absent, S_20},
       o \in {Absent, S_price}, d \in {Absent, S_asc}, p \in PageOptions,
       l \in LimitOptions})

ModelOf(handler) ==
  CASE handler = "getUsers" -> "User"
    [] handler \in {"getUserOrders", "getAllOrders"} -> "Order"
    [] handler = "getPartnerMissions" -> "Mission"
    [] handler = "getNotifications" -> "Notification"
    [] OTHER -> "Upload"

Init ==
  /\ pc = "start"
  /\ req \in GetUsersRequests \cup GetUploadsRequests \cup SearchUploadsRequests
             \cup GallerySearchRequests \cup GetUserOrdersRequests
             \cup GetAllOrdersRequests \cup GetPartnerMissionsRequests
             \cup GetNotificationsRequests \cup GetFilteredUploadsRequests
             \cup GetGalleryRequests
  /\ feat = NewApiFeatures(Find(ModelOf(req.handler), NoConds), req.query)
  /\ res = NoResponse
  /\ db = NoDb

(* The handler of the request answers it: res is the response, and feat holds
   the query the handler ran when it reached the store. *)
Handle(handler) ==
  /\ pc = "start"
  /\ req.handler = handler
  /\ pc' = "done"
  /\ UNCHANGED <<req, db>>

Rejected(response) == res' = response /\ feat' = feat

Ran(query, response) == res' = response /\ feat' = [feat EXCEPT !.mongooseQuery = query]

(* GET /api/users: protect, allowedTo("admin", "master"), getAll(User) *)
getUsers ==
  /\ Handle("getUsers")
  /\ IF ~allowedTo({S_admin, S_master}, req.role) THEN Rejected(Forbidden("getUsers"))
     ELSE /\ feat' = getAllFeatures("User", req.query)
          /\ res' = getAll("getUsers", "User", req)

(* GET /api/uploads: protect, allowedTo("admin", "master"), getUploadsValidator,
   getAll(Upload) *)
getUploads ==
  /\ Handle("getUploads")
  /\ IF ~allowedTo({S_admin, S_master}, req.role) THEN Rejected(Forbidden("getUploads"))
     ELSE IF ~getUploadsValidator(req.query) THEN Rejected(BadRequest("getUploads"))
     ELSE /\ feat' = getAllFeatures("Upload", req.query)
          /\ res' = getAll("getUploads", "Upload", req)

UploadSearchFields == {S_title, S_description, S_tags}

(* GET /api/uploads/search: searchUploadsValidator,
   searchDocuments(Upload, ["title", "description", "tags"]) *)
searchUploads ==
  /\ Handle("searchUploads")
  /\ IF ~searchUploadsValidator(req.query) \/ searchDocumentsRejects(req.query)
       THEN Rejected(BadRequest("searchUploads"))
       ELSE Ran(searchDocumentsQuery("Upload", UploadSearchFields, req.query),
                searchDocuments("searchUploads", "Upload", UploadSearchFields, req))

(* GET /api/gallery/search: searchUploads of the gallery controller *)
gallerySearchUploads ==
  /\ Handle("gallerySearchUploads")
  /\ IF gallerySearchRejects(req.query) THEN Rejected(BadRequest("gallerySearchUploads"))
     ELSE Ran(gallerySearchQuery(req), gallerySearchResponse(req))

(* GET /api/orders: protect, getUserOrders *)
getUserOrders ==
  /\ Handle("getUserOrders")
  /\ Ran(getUserOrdersQuery(req), getUserOrdersResponse(req))

(* GET /api/orders/admin/all: protect, allowedTo("admin", "master"), getAllOrders *)
getAllOrders ==
  /\ Handle("getAllOrders")
  /\ IF ~allowedTo({S_admin, S_master}, req.role) THEN Rejected(Forbidden("getAllOrders"))
     ELSE Ran(getAllOrdersQuery(req), getAllOrdersResponse(req))

(* GET /api/missions/my-missions: allowedTo("partner"), getPartnerMissions *)
getPartnerMissions ==
  /\ Handle("getPartnerMissions")
  /\ IF ~allowedTo({S_partner}, req.role) \/ req.role # S_partner
       THEN Rejected(Forbidden("getPartnerMissions"))
       ELSE Ran(getPartnerMissionsQuery(req), getPartnerMissionsResponse(req))

(* GET /api/notifications: protect, getNotifications *)
getNotifications ==
  /\ Handle("getNotifications")
  /\ Ran(getNotificationsQuery(req), getNotificationsResponse(req))

(* GET /api/uploads/filter: getUploadsValidator, getFilteredUploads *)
getFilteredUploads ==
  /\ Handle("getFilteredUploads")
  /\ IF ~getUploadsValidator(req.query) THEN Rejected(BadRequest("getFilteredUploads"))
     ELSE Ran(getFilteredUploadsQuery(req), getFilteredUploadsResponse(req))

(* GET /api/gallery: getGallery *)
getGallery ==
  /\ Handle("getGallery")
  /\ Ran(getGalleryQuery(req), getGalleryResponse(req))

Next ==
  \/ getUsers
  \/ getUploads
  \/ searchUploads
  \/ gallerySearchUploads
  \/ getUserOrders
  \/ getAllOrders
  \/ getPartnerMissions
  \/ getNotifications
  \/ getFilteredUploads
  \/ getGallery

Spec == Init /\ [][Next]_vars

(***************************************************************************)
(* ApiFeatures.paginate on its own: page, limit and the count are drawn in *)
(* the initial state; the query runs over a collection of count documents, *)
(* numbered 1..count in their order.                                       *)
(***************************************************************************)
MaxCount == 45

PaginateRequests ==
  {[handler |-> "paginate", role |-> S_admin, user |-> 1, strictQuery |-> FALSE,
    count |-> c,
    query |-> Query(<<<<S_page, Empty, p>>, <<S_limit, Empty, l>>>>)] :
     p \in PageOptions, l \in LimitOptions \cup {S_20}, c \in 0..MaxCount}

InitPaginate ==
  /\ pc = "start"
  /\ req \in PaginateRequests
  /\ feat = NewApiFeatures(Find("Upload", NoConds), req.query)
  /\ res = NoResponse
  /\ db = NoDb

Paginate ==
  /\ pc = "start"
  /\ req.handler = "paginate"
  /\ feat' = paginate(feat, req.count)
  /\ res' = IF feat'.mongooseQuery.skip < 0 THEN ServerError("paginate")
            ELSE [handler |-> "paginate", status |-> 200,
                  data |-> SkipLimit([i \in 1..req.count |-> i],
                                     feat'.mongooseQuery.skip, feat'.mongooseQuery.limit)]
  /\ pc' = "done"
  /\ UNCHANGED <<req, db>>

NextPaginate == Paginate

SpecPaginate == InitPaginate /\ [][NextPaginate]_vars

(***************************************************************************)
(* Properties                                                              *)
(***************************************************************************)
ReservedKeys == {S_page, S_sort, S_limit, S_fields, S_keyword}

FilterDone == pc = "done" /\ req.handler = "filter"

C1_Example ==
  Query(<<<<S_page, Empty, S_2>>, <<S_limit, Empty, S_10>>, <<S_sort, Empty, S_neg_createdAt>>,
          <<S_fields, Empty, S_title>>, <<S_keyword, Empty, S_x>>,
          <<S_category, Empty, S_photography>>>>)

C1_ExampleFilter == [k \in {S_category} |-> StringValue(S_photography)]

(* C1: the filter ApiFeatures.filter sends to the store has no condition keyed
   by page, sort, limit, fields or keyword, and the parameters {page:2,
   limit:10, sort:"-createdAt", fields:"title", keyword:"x",
   category:"photography"} give the filter {category: "photography"}. *)
C1_ReservedKeysNeverFilter ==
  FilterDone =>
    /\ DOMAIN feat.mongooseQuery.conds \cap ReservedKeys = {}
    /\ req.query = C1_Example => feat.mongooseQuery.conds = C1_ExampleFilter

C1_Witness ==
  /\ FilterDone
  /\ req.query = C1_Example
  /\ feat.mongooseQuery.conds = C1_ExampleFilter

(* C2: every parameter outside the reserved keys whose value is a plain string
   v becomes the condition "field equals v", whatever the field name and v
   contain. *)
C2_PlainStringIsEquality ==
  FilterDone =>
    \A k \in DOMAIN req.query \ ReservedKeys :
      IsPlain(req.query, k) =>
        /\ k \in DOMAIN feat.mongooseQuery.conds
        /\ feat.mongooseQuery.conds[k] = StringValue(req.query[k].s)

GetAllHandlers == {"getUsers", "getUploads"}

GetAllAnswered == pc = "done" /\ req.handler \in GetAllHandlers /\ res.status = 200

Min(a, b) == IF a < b THEN a ELSE b

(* The slice [skip, skip + limit) of a sequence. *)
Slice(all, skip, limit) ==
  IF skip < 0 \/ limit <= 0 \/ skip >= Len(all) THEN <<>>
  ELSE [i \in 1..(Min(Len(all), skip + limit) - skip) |-> all[skip + i]]

(* The documents passing the filter and the keyword search of the query the
   handler built, in its sort order. *)
FilteredSearchedSorted ==
  LET q == feat.mongooseQuery
  IN  Sorted(q.model, Matching(q.model, req.strictQuery, q.conds), q.sortBy)

(* C3: the page getAll returns is the slice [skip, skip + limit) of the
   filtered and searched documents in the requested sort order, with
   skip = (page - 1) * limit. *)
C3_PageIsSliceOfFilteredSorted ==
  GetAllAnswered =>
    LET pr == res.paginationResults
    IN  res.data = Slice(FilteredSearchedSorted, (pr.currentPage - 1) * pr.limit, pr.limit)

(* C3 for the requests whose page and limit are at least 1. *)
C3_HoldsForPositivePageAndLimit ==
  (GetAllAnswered /\ res.paginationResults.currentPage >= 1 /\ res.paginationResults.limit >= 1) =>
    LET pr == res.paginationResults
    IN  res.data = Slice(FilteredSearchedSorted, (pr.currentPage - 1) * pr.limit, pr.limit)

Paginated == pc = "done" /\ "limit" \in DOMAIN feat.paginationResults

(* C4: the page and the limit paginate uses and reports are at least 1, and
   are the defaults 1 and 25 when the request carries none. *)
C4_PageAndLimitPositive ==
  (Paginated /\ req.handler \in GetAllHandlers) =>
    /\ feat.paginationResults.currentPage >= 1
    /\ feat.paginationResults.limit >= 1
    /\ ~Has(req.query, S_page) => feat.paginationResults.currentPage = 1
    /\ ~Has(req.query, S_limit) => feat.paginationResults.limit = 25

PaginateDone == pc = "done" /\ req.handler = "paginate"

(* C5: nextPage is present, and is page + 1, exactly when page * limit <
   totalCount; previousPage is present, and is page - 1, exactly when
   page > 1. *)
C5_NextAndPreviousPage ==
  PaginateDone =>
    LET pr == feat.paginationResults
    IN  /\ "nextPage" \in DOMAIN pr <=> pr.currentPage * pr.limit < req.count
        /\ "nextPage" \in DOMAIN pr => pr.nextPage = pr.currentPage + 1
        /\ "previousPage" \in DOMAIN pr <=> pr.currentPage > 1
        /\ "previousPage" \in DOMAIN pr => pr.previousPage = pr.currentPage - 1

(* C6: for totalCount >= 0 and limit >= 1, numberOfPages is the ceiling of
   totalCount / limit (the least n with n * limit >= totalCount), and it is 0
   exactly when totalCount is 0. *)
C6_NumberOfPagesIsCeiling ==
  (PaginateDone /\ req.count >= 0 /\ feat.paginationResults.limit >= 1) =>
    LET pr == feat.paginationResults
    IN  /\ pr.numberOfPages * pr.limit >= req.count
        /\ (pr.numberOfPages - 1) * pr.limit < req.count
        /\ pr.numberOfPages = 0 <=> req.count = 0

C6_Witness ==
  /\ PaginateDone
  /\ feat.paginationResults.limit = 2
  /\ req.count = 5
  /\ feat.paginationResults.numberOfPages = 3

(* C7: paginate skips (page - 1) * limit documents and returns at most limit
   documents from there on; page 3 with limit 20 of 45 documents skips 40,
   returns at most 5 documents, and reports 3 pages, previousPage 2 and no
   nextPage. *)
C7_SkipAndLimit ==
  PaginateDone =>
    LET pr == feat.paginationResults
        skip == (pr.currentPage - 1) * pr.limit
    IN  /\ feat.mongooseQuery.skip = skip
        /\ res.status = 200 =>
             /\ Len(res.data) <= (IF pr.limit > 0 THEN pr.limit ELSE 0)
             /\ \A i \in 1..Len(res.data) : res.data[i] = skip + i
        /\ (pr.currentPage = 3 /\ pr.limit = 20 /\ req.count = 45) =>
             /\ skip = 40
             /\ Len(res.data) <= 5
             /\ pr.numberOfPages = 3
             /\ "nextPage" \notin DOMAIN pr
             /\ "previousPage" \in DOMAIN pr /\ pr.previousPage = 2

ResourceListHandlers ==
  {"getUserOrders", "getAllOrders", "getPartnerMissions", "getNotifications",
   "getFilteredUploads", "getGallery", "gallerySearchUploads"}

ResourceListAnswered == pc = "done" /\ req.handler \in ResourceListHandlers /\ res.status = 200

(* The number of documents matching the filter of the query that selected the
   returned items. *)
ItemsFilterCount ==
  LET q == feat.mongooseQuery
  IN  Cardinality(Matching(q.model, req.strictQuery, q.conds))

TotalFromItemsFilter ==
  /\ res.total = ItemsFilterCount
  /\ res.limit >= 1 =>
       /\ res.pages * res.limit >= ItemsFilterCount
       /\ (res.pages - 1) * res.limit < ItemsFilterCount

(* C8: each resource-specific list endpoint (user orders, all orders, partner
   missions, notifications, filtered uploads, gallery, gallery search) reports
   as total the number of documents matching the filter that selected its
   items, and as page count the ceiling of that number over the limit. *)
C8_TotalCountsTheItemsFilter == ResourceListAnswered => TotalFromItemsFilter

(* C8 for the endpoints other than the notifications and the gallery search. *)
C8_HoldsForOrdersMissionsUploadsGallery ==
  (ResourceListAnswered /\ req.handler \notin {"getNotifications", "gallerySearchUploads"}) =>
    TotalFromItemsFilter

KeywordSearchHandlers == {"getUsers", "getUploads", "searchUploads"}

KeywordKey == IF req.handler \in GetAllHandlers THEN S_keyword ELSE S_q

KeywordGiven == StringOf(req.query, KeywordKey)

(* The searchable fields configured for a resource. *)
SearchableFields(model) ==
  IF model = "User" THEN {S_firstName, S_lastName, S_email}
  ELSE {S_title, S_description, S_tags}

(* k occurs in text, letter case ignored. *)
ContainsIgnoringCase(text, k) ==
  \E i \in 0..(Len(text) - Len(k)) : ToLower(SubSeq(text, i + 1, i + Len(k))) = ToLower(k)

FieldContains(model, d, f, k) ==
  IF Schema(model)[f] = "Strings" THEN \E e \in d[f] : ContainsIgnoringCase(e, k)
  ELSE ContainsIgnoringCase(d[f], k)

(* The documents that pass the filters other than the keyword search and
   hold k in one of the searchable fields. *)
OtherFiltersAndKeyword ==
  LET q == feat.mongooseQuery
      others == [key \in DOMAIN q.conds \ {S_or} |-> q.conds[key]]
  IN  {id \in Matching(q.model, req.strictQuery, others) :
         \E f \in SearchableFields(q.model) :
           FieldContains(q.model, Collection(q.model)[id], f, KeywordGiven)}

KeywordSearchAnswered ==
  /\ pc = "done"
  /\ req.handler \in KeywordSearchHandlers
  /\ res.status = 200
  /\ Trim(KeywordGiven) # Empty

(* C9: when a list or search request carries a keyword k, the documents the
   answer is taken from are exactly those that pass the other filters and
   hold k, letter case ignored, in one of the searchable fields of the
   resource (title, description, tags for uploads; firstName, lastName, email
   for users). *)
C9_KeywordMatchesSearchableFields ==
  KeywordSearchAnswered =>
    LET q == feat.mongooseQuery
    IN  Matching(q.model, req.strictQuery, q.conds) = OtherFiltersAndKeyword

(* C9 for searchDocuments over the uploads. *)
C9_HoldsForSearchDocuments ==
  (KeywordSearchAnswered /\ req.handler = "searchUploads") =>
    LET q == feat.mongooseQuery
    IN  Matching(q.model, req.strictQuery, q.conds) = OtherFiltersAndKeyword

BlankKeyword ==
  /\ pc = "done"
  /\ req.handler \in KeywordSearchHandlers \cup {"gallerySearchUploads"}
  /\ Has(req.query, KeywordKey)
  /\ Trim(KeywordGiven) = Empty

SearchReachedStore == {S_or, S_text} \cap DOMAIN feat.mongooseQuery.conds # {}

(* C10: getAll, searchDocuments and the gallery search answer a request whose
   keyword is empty or only white space with a client error (status 4xx),
   and send no search condition to the store. *)
C10_BlankKeywordRejected ==
  BlankKeyword => (res.status \in 400..499 /\ ~SearchReachedStore)

(* C10 for searchDocuments, which trims the keyword before it tests it. *)
C10_HoldsForSearchDocuments ==
  (BlankKeyword /\ req.handler = "searchUploads") =>
    (res.status \in 400..499 /\ ~SearchReachedStore)

(***************************************************************************)
(* Uploads and their review: POST /api/uploads, PUT and DELETE             *)
(* /api/uploads/:id, PATCH /api/uploads/:id/approve and /reject, POST      *)
(* /api/uploads/bulk. db.uploads[id] is the upload document with that id   *)
(* (exists is FALSE before it is created and after it is deleted).         *)
(***************************************************************************)
MaxUploads == 2

S_out_of_focus == <<"o", "u", "t", " ", "o", "f", " ", "f", "o", "c", "u", "s">>
S_approve == <<"a", "p", "p", "r", "o", "v", "e">>
S_reject == <<"r", "e", "j", "e", "c", "t">>
S_delete == <<"d", "e", "l", "e", "t", "e">>
S_feature == <<"f", "e", "a", "t", "u", "r", "e">>
S_unfeature == <<"u", "n", "f", "e", "a", "t", "u", "r", "e">>

(* The accounts that send the requests, by id, with their roles. *)
UploadAccounts == <<S_user, S_user, S_admin>>

Answer(handler, status) == [handler |-> handler, status |-> status]

NotFound(handler) == Answer(handler, 404)

NoUpload == [exists |-> FALSE, user |-> 0, status |-> S_pending, reviewedBy |-> 0,
             featured |-> FALSE]

UploadStatuses == {S_pending, S_approved, S_rejected, S_suspended}

IsStaff(role) == role \in {S_admin, S_master}

(* isLength({ min, max }) on a body field that is present *)
IsLength(s, min, max) == Len(s) >= min /\ Len(s) <= max

MinTitleLength == 3
MaxTitleLength == 100
MinReasonLength == 10
MaxReasonLength == 500

(* createUploadValidator, on the title; the other required fields of the
   body are well formed. *)
createUploadValidator(b) ==
  b.title # Absent /\ b.title # Empty /\ IsLength(b.title, MinTitleLength, MaxTitleLength)

(* updateUploadValidator, on the title *)
updateUploadValidator(b) ==
  b.title = Absent \/ IsLength(b.title, MinTitleLength, MaxTitleLength)

(* rejectUploadValidator *)
rejectUploadValidator(b) ==
  b.reason # Absent /\ b.reason # Empty /\ IsLength(b.reason, MinReasonLength, MaxReasonLength)

(* bulkUploadValidator *)
bulkUploadValidator(b) ==
  /\ b.operation \in {S_approve, S_reject, S_delete, S_feature, S_unfeature}
  /\ b.ids # {}
  /\ b.operation = S_reject => rejectUploadValidator(b)

(* Upload.create(req.body) with req.body.user = req.user.id: the schema gives
   status its default when the body has none and refuses a status outside
   its enum. *)
createUploadDoc(user, b) ==
  [exists |-> TRUE, user |-> user,
   status |-> IF b.status = Absent THEN S_pending ELSE b.status,
   reviewedBy |-> 0, featured |-> FALSE]

UploadRequests ==
  {[handler |-> "createUpload", user |-> u, body |-> [title |-> ti, status |-> s]] :
     u \in DOMAIN UploadAccounts, ti \in {S_hill, S_x}, s \in {Absent, S_approved, S_x}}
  \cup {[handler |-> "updateUpload", user |-> u, id |-> i, body |-> [title |-> ti, status |-> s]] :
          u \in DOMAIN UploadAccounts, i \in 1..MaxUploads, ti \in {Absent, S_hill, S_x},
          s \in {Absent, S_approved, S_pending, S_x}}
  \cup {[handler |-> "deleteUpload", user |-> u, id |-> i] :
          u \in DOMAIN UploadAccounts, i \in 1..MaxUploads}
  \cup {[handler |-> h, user |-> u, id |-> i, body |-> [reason |-> r]] :
          h \in {"approveUpload", "rejectUpload"}, u \in DOMAIN UploadAccounts,
          i \in 1..MaxUploads, r \in {Absent, S_out_of_focus}}
  \cup {[handler |-> "bulkUploadOperations", user |-> u,
         body |-> [operation |-> o, ids |-> ids, reason |-> r]] :
          u \in DOMAIN UploadAccounts,
          o \in {S_approve, S_reject, S_delete, S_feature, S_unfeature, S_x},
          ids \in SUBSET (1..MaxUploads), r \in {Absent, S_out_of_focus}}

NoRequest == [handler |-> "none"]

(* The server is idle between two requests. *)
Idle(documents) ==
  /\ pc = "idle"
  /\ req = NoRequest
  /\ feat = NoPagination
  /\ res = NoResponse
  /\ db = documents

(* A request arrives. *)
Receive(r) ==
  /\ pc = "idle"
  /\ req' = r
  /\ pc' = "handle"
  /\ UNCHANGED <<feat, res, db>>

(* The handler of the request runs: it answers and leaves the documents as
   newDb. *)
Handling(handler) == pc = "handle" /\ req.handler = handler

Serve(response, newDb) ==
  /\ pc = "handle"
  /\ res' = response
  /\ db' = newDb
  /\ pc' = "done"
  /\ UNCHANGED <<req, feat>>

(* The response is sent and the request is over. *)
Respond ==
  /\ pc = "done"
  /\ pc' = "idle"
  /\ req' = NoRequest
  /\ res' = NoResponse
  /\ UNCHANGED <<feat, db>>

InitUploads == Idle([uploads |-> [i \in 1..MaxUploads |-> NoUpload], created |-> 0])

(* No more than MaxUploads uploads are created. *)
ReceiveUpload ==
  \E r \in UploadRequests :
    /\ r.handler = "createUpload" => db.created < MaxUploads
    /\ Receive(r)

(* POST /api/uploads: protect, createUploadValidator, createUpload *)
createUpload ==
  /\ Handling("createUpload")
  /\ LET r == req IN
    IF ~createUploadValidator(r.body) THEN Serve(BadRequest("createUpload"), db)
       ELSE IF createUploadDoc(r.user, r.body).status \notin UploadStatuses
         THEN Serve(ServerError("createUpload"), db)
       ELSE Serve(Answer("createUpload", 201),
                  [db EXCEPT !.uploads[db.created + 1] = createUploadDoc(r.user, r.body),
                             !.created = @ + 1])

(* PUT /api/uploads/:id: protect, updateUploadValidator, updateUpload *)
updateUpload ==
  /\ Handling("updateUpload")
  /\ LET r == req IN
    LET upload == db.uploads[r.id]
           staff == IsStaff(UploadAccounts[r.user])
       IN  IF ~updateUploadValidator(r.body) THEN Serve(BadRequest("updateUpload"), db)
           ELSE IF ~upload.exists THEN Serve(NotFound("updateUpload"), db)
           ELSE IF upload.user # r.user /\ ~staff THEN Serve(Forbidden("updateUpload"), db)
           ELSE IF upload.user = r.user /\ upload.status # S_pending /\ ~staff
             THEN Serve(BadRequest("updateUpload"), db)
           ELSE IF r.body.status # Absent /\ r.body.status \notin UploadStatuses
             THEN Serve(ServerError("updateUpload"), db)
           ELSE Serve(Answer("updateUpload", 200),
                      IF r.body.status = Absent THEN db
                      ELSE [db EXCEPT !.uploads[r.id].status = r.body.status])

(* DELETE /api/uploads/:id: protect, deleteUploadValidator, deleteUpload *)
deleteUpload ==
  /\ Handling("deleteUpload")
  /\ LET r == req IN
    LET upload == db.uploads[r.id]
       IN  IF ~upload.exists THEN Serve(NotFound("deleteUpload"), db)
           ELSE IF upload.user # r.user /\ ~IsStaff(UploadAccounts[r.user])
             THEN Serve(Forbidden("deleteUpload"), db)
           ELSE Serve(Answer("deleteUpload", 200), [db EXCEPT !.uploads[r.id] = NoUpload])

(* PATCH /api/uploads/:id/approve: protect, allowedTo("admin", "master"),
   approveUploadValidator, approveUpload *)
approveUpload ==
  /\ Handling("approveUpload")
  /\ LET r == req IN
    LET upload == db.uploads[r.id]
       IN  IF ~allowedTo({S_admin, S_master}, UploadAccounts[r.user])
             THEN Serve(Forbidden("approveUpload"), db)
           ELSE IF ~upload.exists THEN Serve(NotFound("approveUpload"), db)
           ELSE IF upload.status # S_pending THEN Serve(BadRequest("approveUpload"), db)
           ELSE Serve(Answer("approveUpload", 200),
                      [db EXCEPT !.uploads[r.id].status = S_approved,
                                 !.uploads[r.id].reviewedBy = r.user])

(* PATCH /api/uploads/:id/reject: protect, allowedTo("admin", "master"),
   rejectUploadValidator, rejectUpload *)
rejectUpload ==
  /\ Handling("rejectUpload")
  /\ LET r == req IN
    LET upload == db.uploads[r.id]
       IN  IF ~allowedTo({S_admin, S_master}, UploadAccounts[r.user])
             THEN Serve(Forbidden("rejectUpload"), db)
           ELSE IF ~rejectUploadValidator(r.body) THEN Serve(BadRequest("rejectUpload"), db)
           ELSE IF ~upload.exists THEN Serve(NotFound("rejectUpload"), db)
           ELSE IF upload.status # S_pending THEN Serve(BadRequest("rejectUpload"), db)
           ELSE Serve(Answer("rejectUpload", 200),
                      [db EXCEPT !.uploads[r.id].status = S_rejected,
                                 !.uploads[r.id].reviewedBy = r.user])

(* Upload.updateMany / deleteMany of bulkUploadOperations *)
bulkUploads(uploads, b, user) ==
  [i \in DOMAIN uploads |->
     LET u == uploads[i]
     IN  IF i \notin b.ids \/ ~u.exists THEN u
         ELSE CASE b.operation = S_approve /\ u.status = S_pending ->
                     [u EXCEPT !.status = S_approved, !.reviewedBy = user]
                [] b.operation = S_reject /\ u.status = S_pending ->
                     [u EXCEPT !.status = S_rejected, !.reviewedBy = user]
                [] b.operation = S_feature /\ u.status = S_approved ->
                     [u EXCEPT !.featured = TRUE]
                [] b.operation = S_unfeature -> [u EXCEPT !.featured = FALSE]
                [] b.operation = S_delete -> NoUpload
                [] OTHER -> u]

(* POST /api/uploads/bulk: protect, allowedTo("admin", "master"),
   bulkUploadValidator, bulkUploadOperations *)
bulkUploadOperations ==
  /\ Handling("bulkUploadOperations")
  /\ LET r == req IN
    IF ~allowedTo({S_admin, S_master}, UploadAccounts[r.user])
         THEN Serve(Forbidden("bulkUploadOperations"), db)
       ELSE IF ~bulkUploadValidator(r.body)
         THEN Serve(BadRequest("bulkUploadOperations"), db)
       ELSE Serve(Answer("bulkUploadOperations", 200),
                  [db EXCEPT !.uploads = bulkUploads(@, r.body, r.user)])

NextUploads ==
  \/ ReceiveUpload
  \/ createUpload
  \/ updateUpload
  \/ deleteUpload
  \/ approveUpload
  \/ rejectUpload
  \/ bulkUploadOperations
  \/ Respond

SpecUploads == InitUploads /\ [][NextUploads]_vars

ReviewHandlers == {"approveUpload", "rejectUpload", "bulkUploadOperations"}

(* The request the step serves was sent by an admin or a master. *)
ByStaff == UploadAccounts[req.user] \in {S_admin, S_master}

(* C11: an upload is pending when its owner creates it; a step gives an
   upload the status approved or rejected only when it serves approveUpload,
   rejectUpload or a bulk approve/reject sent by an admin or a master; so no
   create or update request of another user makes an upload approved. *)
C11_ApprovedOnlyByReview ==
  [][\A i \in 1..MaxUploads :
       LET old == db.uploads[i]
           new == db'.uploads[i]
       IN  /\ (~old.exists /\ new.exists) => new.status = S_pending
           /\ (new.exists /\ new.status \in {S_approved, S_rejected}
                 /\ (~old.exists \/ old.status # new.status)) =>
                (req.handler \in ReviewHandlers /\ ByStaff)]_vars

(***************************************************************************)
(* Orders and downloads: POST /api/orders, POST /api/orders/:id/payment,   *)
(* GET /api/orders/:id/download/:itemId, PATCH /api/orders/:id/status.     *)
(* db.now is the date, in days; db.orders[id] is the order document.       *)
(***************************************************************************)
MaxOrders == 1
TickDays == 10
MaxDay == 40
DownloadDays == 30

S_cancelled == <<"c", "a", "n", "c", "e", "l", "l", "e", "d">>
S_refunded == <<"r", "e", "f", "u", "n", "d", "e", "d">>

OrderAccounts == <<S_user, S_user, S_admin>>

OrderStatuses == {S_pending, S_paid, S_completed, S_cancelled, S_refunded}

NoOrder == [exists |-> FALSE, customer |-> 0, status |-> S_pending,
            paymentStatus |-> S_pending, items |-> <<>>]

(* createOrderValidator, on the items *)
createOrderValidator(b) == Len(b.items) >= 1

(* updateOrderStatusValidator *)
updateOrderStatusValidator(b) == b.status \in OrderStatuses

(* The uploads of the request that exist and are approved. *)
AvailableUploads(uploadIds) ==
  {i \in DOMAIN uploadIds :
     uploadIds[i] \in DOMAIN Uploads /\ Uploads[uploadIds[i]][S_status] = S_approved}

(* Order.create of createOrder: one item per upload, downloadable for 30
   days from now. *)
createOrderDoc(customer, uploadIds, now) ==
  [exists |-> TRUE, customer |-> customer, status |-> S_pending,
   paymentStatus |-> S_pending,
   items |-> [i \in DOMAIN uploadIds |->
                [upload |-> uploadIds[i], downloadExpires |-> now + DownloadDays,
                 downloaded |-> FALSE]]]

(* order.markAsPaid(paymentId, paymentData) *)
markAsPaid(order, now) ==
  [order EXCEPT !.status = S_paid, !.paymentStatus = S_completed,
                !.items = [i \in DOMAIN @ |-> [@[i] EXCEPT !.downloadExpires = now + DownloadDays]]]

OrderRequests ==
  {[handler |-> "createOrder", user |-> u, body |-> [items |-> it]] :
     u \in DOMAIN OrderAccounts, it \in {<<>>, <<1>>, <<3>>}}
  \cup {[handler |-> "processPayment", user |-> u, id |-> i] :
          u \in DOMAIN OrderAccounts, i \in 1..MaxOrders}
  \cup {[handler |-> "downloadItem", user |-> u, id |-> i, itemId |-> it] :
          u \in DOMAIN OrderAccounts, i \in 1..MaxOrders, it \in 1..2}
  \cup {[handler |-> "updateOrderStatus", user |-> u, id |-> i, body |-> [status |-> s]] :
          u \in DOMAIN OrderAccounts, i \in 1..MaxOrders, s \in OrderStatuses \cup {S_x}}

InitOrders == Idle([orders |-> [i \in 1..MaxOrders |-> NoOrder], created |-> 0, now |-> 0])

(* No more than MaxOrders orders are created. *)
ReceiveOrder ==
  \E r \in OrderRequests :
    /\ r.handler = "createOrder" => db.created < MaxOrders
    /\ Receive(r)

(* Time passes between two requests. *)
TickOrders ==
  /\ pc = "idle"
  /\ db.now + TickDays <= MaxDay
  /\ db' = [db EXCEPT !.now = @ + TickDays]
  /\ UNCHANGED <<pc, req, feat, res>>

(* POST /api/orders: protect, createOrderValidator, createOrder *)
createOrder ==
  /\ Handling("createOrder")
  /\ IF ~createOrderValidator(req.body) THEN Serve(BadRequest("createOrder"), db)
     ELSE IF Cardinality(AvailableUploads(req.body.items)) # Len(req.body.items)
       THEN Serve(BadRequest("createOrder"), db)
     ELSE Serve(Answer("createOrder", 201),
                [db EXCEPT !.orders[db.created + 1] =
                             createOrderDoc(req.user, req.body.items, db.now),
                           !.created = @ + 1])

(* POST /api/orders/:id/payment: protect, processPaymentValidator,
   processPayment *)
processPayment ==
  /\ Handling("processPayment")
  /\ LET order == db.orders[req.id]
     IN  IF ~order.exists THEN Serve(NotFound("processPayment"), db)
         ELSE IF order.customer # req.user THEN Serve(Forbidden("processPayment"), db)
         ELSE IF order.status # S_pending THEN Serve(BadRequest("processPayment"), db)
         ELSE Serve(Answer("processPayment", 200),
                    [db EXCEPT !.orders[req.id] = markAsPaid(order, db.now)])

(* GET /api/orders/:id/download/:itemId: protect, downloadItemValidator,
   downloadItem *)
downloadItem ==
  /\ Handling("downloadItem")
  /\ LET order == db.orders[req.id]
     IN  IF ~order.exists THEN Serve(NotFound("downloadItem"), db)
         ELSE IF order.customer # req.user THEN Serve(Forbidden("downloadItem"), db)
         ELSE IF order.status # S_paid /\ order.status # S_completed
           THEN Serve(BadRequest("downloadItem"), db)
         ELSE IF req.itemId \notin DOMAIN order.items THEN Serve(NotFound("downloadItem"), db)
         ELSE IF db.now > order.items[req.itemId].downloadExpires
           THEN Serve(BadRequest("downloadItem"), db)
         ELSE Serve([handler |-> "downloadItem", status |-> 200,
                     downloadUrl |-> order.items[req.itemId].upload],
                    [db EXCEPT !.orders[req.id].items[req.itemId].downloaded = TRUE])

(* PATCH /api/orders/:id/status: protect, allowedTo("admin", "master"),
   updateOrderStatusValidator, updateOrderStatus *)
updateOrderStatus ==
  /\ Handling("updateOrderStatus")
  /\ IF ~allowedTo({S_admin, S_master}, OrderAccounts[req.user])
       THEN Serve(Forbidden("updateOrderStatus"), db)
     ELSE IF ~updateOrderStatusValidator(req.body)
       THEN Serve(BadRequest("updateOrderStatus"), db)
     ELSE IF ~db.orders[req.id].exists THEN Serve(NotFound("updateOrderStatus"), db)
     ELSE Serve(Answer("updateOrderStatus", 200),
                [db EXCEPT !.orders[req.id].status = req.body.status])

NextOrders ==
  \/ ReceiveOrder
  \/ TickOrders
  \/ createOrder
  \/ processPayment
  \/ downloadItem
  \/ updateOrderStatus
  \/ Respond

SpecOrders == InitOrders /\ [][NextOrders]_vars

DownloadUrlReturned == pc = "done" /\ res.handler = "downloadItem" /\ res.status = 200

(* C12: downloadItem returns the URL of an order item only to the customer of
   the order, only for an order whose payment was processed (so that its
   status is paid or completed), and only while the item's downloadExpires
   has not passed. *)
C12_DownloadOnlyPurchased ==
  DownloadUrlReturned =>
    LET order == db.orders[req.id]
    IN  /\ order.customer = req.user
        /\ order.paymentStatus = S_completed
        /\ order.status \in {S_paid, S_completed}
        /\ db.now <= order.items[req.itemId].downloadExpires

(* C12 without the payment: the three tests downloadItem makes. *)
C12_HoldsForCustomerStatusAndExpiry ==
  DownloadUrlReturned =>
    LET order == db.orders[req.id]
    IN  /\ order.customer = req.user
        /\ order.status \in {S_paid, S_completed}
        /\ db.now <= order.items[req.itemId].downloadExpires

(***************************************************************************)
(* Users and roles: POST /api/auth/signup, PATCH /api/users/:id/promote,   *)
(* DELETE /api/users/:id. db.users[id] is the user document.               *)
(***************************************************************************)
MaxUsers == 4

UserRoles == {S_user, S_partner, S_admin, S_master}

NoUser == [exists |-> FALSE, role |-> S_user]

User(role) == [exists |-> TRUE, role |-> role]

Unauthorized(handler) == Answer(handler, 401)

(* protect: the user of the token still exists; req.user is that document. *)
protect(users, id) == users[id].exists

(* signupValidator, on the role; the other fields are well formed and the
   email is new. *)
signupValidator(b) == b.role = Absent \/ b.role \in UserRoles

(* promoteUserValidator *)
promoteUserValidator(b) == b.role # Absent /\ b.role # Empty /\ b.role \in {S_user, S_admin, S_master}

(* The status signup refuses the body with, or 0. *)
signupRefusal(b) ==
  IF b.role = S_admin \/ b.role = S_master THEN 403
  ELSE IF b.role = S_partner /\ ~b.partnerData THEN 400
  ELSE 0

(* User.create of signup: the role is given to a partner only. *)
signupDoc(b) == User(IF b.role = S_partner THEN S_partner ELSE S_user)

promoteRefusal_masterTargetAllowed(requester, target, role) ==
  IF requester.role # S_master THEN 403
  ELSE IF ~target.exists THEN 404
  ELSE IF target.role = role THEN 403
  ELSE IF role = S_master THEN 403
  ELSE IF role \notin UserRoles THEN 403
  ELSE 0

(* The status promoteOrDemoteUser refuses the request with, or 0. *)
promoteRefusal(requester, target, role) ==
  IF requester.role # S_master THEN 403
  ELSE IF ~target.exists THEN 404
  ELSE IF target.role = S_master THEN 403
  ELSE IF target.role = role THEN 403
  ELSE IF role = S_master THEN 403
  ELSE IF role \notin UserRoles THEN 403
  ELSE 0

UserRequests ==
  {[handler |-> "signup", body |-> [role |-> r, partnerData |-> pd]] :
     r \in UserRoles \cup {Absent, S_x}, pd \in BOOLEAN}
  \cup {[handler |-> "promoteOrDemoteUser", user |-> u, id |-> i, body |-> [role |-> r]] :
          u \in 1..MaxUsers, i \in 1..MaxUsers, r \in UserRoles \cup {Absent}}
  \cup {[handler |-> "deleteUser", user |-> u, id |-> i] :
          u \in 1..MaxUsers, i \in 1..MaxUsers}

(* A master, an admin and a user are registered. *)
InitUsers ==
  Idle([users |-> [i \in 1..MaxUsers |->
                     CASE i = 1 -> User(S_master) [] i = 2 -> User(S_admin)
                       [] i = 3 -> User(S_user) [] OTHER -> NoUser],
        created |-> 3])

(* No more than MaxUsers users are created. *)
ReceiveUser ==
  \E r \in UserRequests :
    /\ r.handler = "signup" => db.created < MaxUsers
    /\ Receive(r)

(* POST /api/auth/signup: signupValidator, signup *)
signup ==
  /\ Handling("signup")
  /\ IF ~signupValidator(req.body) THEN Serve(BadRequest("signup"), db)
     ELSE IF signupRefusal(req.body) # 0
       THEN Serve(Answer("signup", signupRefusal(req.body)), db)
     ELSE Serve(Answer("signup", 201),
                [db EXCEPT !.users[db.created + 1] = signupDoc(req.body), !.created = @ + 1])

(* PATCH /api/users/:id/promote: protect, allowedTo("admin", "master"),
   promoteUserValidator, promoteOrDemoteUser *)
promoteOrDemoteUser ==
  /\ Handling("promoteOrDemoteUser")
  /\ LET refusal == promoteRefusal(db.users[req.user], db.users[req.id], req.body.role)
     IN  IF ~protect(db.users, req.user) THEN Serve(Unauthorized("promoteOrDemoteUser"), db)
         ELSE IF ~allowedTo({S_admin, S_master}, db.users[req.user].role)
           THEN Serve(Forbidden("promoteOrDemoteUser"), db)
         ELSE IF ~promoteUserValidator(req.body)
           THEN Serve(BadRequest("promoteOrDemoteUser"), db)
         ELSE IF refusal # 0 THEN Serve(Answer("promoteOrDemoteUser", refusal), db)
         ELSE Serve(Answer("promoteOrDemoteUser", 200),
                    [db EXCEPT !.users[req.id].role = req.body.role])

(* DELETE /api/users/:id: protect, allowedTo("admin", "master"),
   deleteUserValidator, deleteOne(User) *)
deleteUser ==
  /\ Handling("deleteUser")
  /\ IF ~protect(db.users, req.user) THEN Serve(Unauthorized("deleteUser"), db)
     ELSE IF ~allowedTo({S_admin, S_master}, db.users[req.user].role)
       THEN Serve(Forbidden("deleteUser"), db)
     ELSE IF ~db.users[req.id].exists THEN Serve(NotFound("deleteUser"), db)
     ELSE Serve(Answer("deleteUser", 200), [db EXCEPT !.users[req.id] = NoUser])

NextUsers ==
  \/ ReceiveUser
  \/ signup
  \/ promoteOrDemoteUser
  \/ deleteUser
  \/ Respond

SpecUsers == InitUsers /\ [][NextUsers]_vars

Refused == res'.status \in 400..499 /\ db' = db

(* C13: DELETE /api/users/:id deletes a user only when the requester is a
   master; sent by an admin it is refused and the user still exists. *)
C13_OnlyMasterDeletes ==
  [][Handling("deleteUser") =>
       /\ (db.users[req.id].exists /\ ~db'.users[req.id].exists) =>
            db.users[req.user].role = S_master
       /\ (db.users[req.user].exists /\ db.users[req.user].role = S_admin) => Refused]_vars

(* C14: no step gives a user the role master or changes the role of a
   master; a step changes the role of an existing user only when it serves
   promoteOrDemoteUser for a master; promoteOrDemoteUser refuses a requester
   who is no master, a target who is a master, the target role master and an
   unchanged role; signup refuses the roles admin and master. *)
C14_RolesChangeOnlyByMaster ==
  [][/\ \A i \in 1..MaxUsers :
          LET old == db.users[i]
              new == db'.users[i]
          IN  /\ (new.exists /\ new.role = S_master) => (old.exists /\ old.role = S_master)
              /\ (old.exists /\ old.role = S_master /\ new.exists) => new.role = S_master
              /\ (old.exists /\ new.exists /\ old.role # new.role) =>
                   /\ Handling("promoteOrDemoteUser")
                   /\ db.users[req.user].exists /\ db.users[req.user].role = S_master
     /\ Handling("promoteOrDemoteUser") =>
          ((\/ ~db.users[req.user].exists
            \/ db.users[req.user].role # S_master
            \/ ~db.users[req.id].exists
            \/ db.users[req.id].role = S_master
            \/ db.users[req.id].role = req.body.role
            \/ req.body.role = S_master) => Refused)
     /\ (Handling("signup") /\ req.body.role \in {S_admin, S_master}) => Refused]_vars

(* A master has made a user an admin. *)
C14_Witness ==
  /\ pc = "done"
  /\ res.handler = "promoteOrDemoteUser"
  /\ res.status = 200
  /\ req.body.role = S_admin
  /\ db.users[req.id].role = S_admin
  /\ db.users[req.user].role = S_master

(***************************************************************************)
(* Settings: the router of /api/settings, the Settings model and its       *)
(* statics. db.settings[key] is the stored document. Of the defaults of    *)
(* initializeDefaults the model keeps max_file_size and                    *)
(* max_login_attempts; no setting of the model declares a pattern.         *)
(***************************************************************************)
MaxBatch == 1

SettingAccounts == <<S_master, S_admin>>

SettingKeys == {"max_file_size", "max_login_attempts", "theme"}

SettingTypes == {"string", "number", "boolean", "object", "array"}

SettingCategories == {"general", "ui", "payment", "upload", "notification", "security"}

S_dark == <<"d", "a", "r", "k">>

S_light == <<"l", "i", "g", "h", "t">>

UndefinedValue == Value("undefined")

SettingValues == {NumberValue(0), NumberValue(5), BoolValue(TRUE), StringValue(S_dark)}

NoValidation ==
  [hasMin |-> FALSE, min |-> 0, hasMax |-> FALSE, max |-> 0, hasOptions |-> FALSE, options |-> {}]

Range(min, max) == [NoValidation EXCEPT !.hasMin = TRUE, !.min = min, !.hasMax = TRUE, !.max = max]

Options(options) == [NoValidation EXCEPT !.hasOptions = TRUE, !.options = options]

(* A document as the schema's defaults leave it. *)
NoSetting ==
  [exists |-> FALSE, value |-> UndefinedValue, type |-> "undefined", category |-> "undefined",
   isPublic |-> FALSE, isEditable |-> TRUE, validation |-> NoValidation]

MaxFileSizeDefault == 50

MaxFileSizeMin == 1

MaxFileSizeMax == 500

MaxLoginAttemptsDefault == 5

MaxLoginAttemptsMin == 1

MaxLoginAttemptsMax == 10

(* The update document of initializeDefaults for the key, of the defaults
   the model keeps. *)
defaultSettings ==
  [max_file_size |->
     [value |-> NumberValue(MaxFileSizeDefault), type |-> "number", category |-> "upload",
      validation |-> Range(MaxFileSizeMin, MaxFileSizeMax)],
   max_login_attempts |->
     [value |-> NumberValue(MaxLoginAttemptsDefault), type |-> "number", category |-> "security",
      validation |-> Range(MaxLoginAttemptsMin, MaxLoginAttemptsMax)]]

(* settingsSchema.pre('save'): TRUE when the document is saved. *)
preSave(doc) ==
  CASE doc.type = "number" ->
         /\ doc.value.kind = "number"
         /\ ~(doc.validation.hasMin /\ doc.value.n < doc.validation.min)
         /\ ~(doc.validation.hasMax /\ doc.value.n > doc.validation.max)
    [] doc.type = "boolean" -> doc.value.kind = "bool"
    [] doc.type = "string" ->
         /\ doc.value.kind = "string"
         /\ ~(doc.validation.hasOptions /\ doc.value.s \notin doc.validation.options)
    [] OTHER -> TRUE

(* The schema's validators of the paths key, value, type and category. *)
schemaValid(doc) ==
  /\ doc.value # UndefinedValue
  /\ doc.type \in SettingTypes
  /\ doc.category \in SettingCategories

(* The two allowedTo of the router that stand before every route but
   /public and /category/:category. *)
settingsRouteAllows(role) ==
  /\ allowedTo({S_admin, S_master}, role)
  /\ allowedTo({S_master}, role)

(* createSettingValidator *)
createSettingValidator(b) ==
  /\ b.value # UndefinedValue
  /\ b.type \in SettingTypes
  /\ b.category \in SettingCategories

(* The document Settings.create builds of the body. *)
createSettingDoc(b) ==
  [NoSetting EXCEPT !.exists = TRUE, !.value = b.value, !.type = b.type,
                    !.category = b.category, !.isEditable = b.isEditable,
                    !.validation = b.validation]

(* setting.updateValue(value): the saved document, or the stored one when
   pre('save') refuses. *)
updateValue(doc, value) ==
  LET new == [doc EXCEPT !.value = value]
  IN  IF preSave(new) THEN new ELSE doc

(* findOneAndUpdate of importSettings: the fields of the item are set, no
   pre('save') runs; runValidators tests the enum of a given type and
   category. *)
importOverwrite(doc, item) ==
  IF (item.type # "undefined" /\ item.type \notin SettingTypes)
       \/ (item.category # "undefined" /\ item.category \notin SettingCategories)
    THEN doc
    ELSE [doc EXCEPT !.value = IF item.value = UndefinedValue THEN @ ELSE item.value,
                     !.type = IF item.type = "undefined" THEN @ ELSE item.type,
                     !.category = IF item.category = "undefined" THEN @ ELSE item.category]

(* Settings.create of importSettings. *)
importCreate(item) ==
  LET new == [NoSetting EXCEPT !.exists = TRUE, !.value = item.value, !.type = item.type,
                               !.category = item.category]
  IN  IF schemaValid(new) /\ preSave(new) THEN new ELSE NoSetting

RECURSIVE importAll(_, _, _)
(* The loop of importSettings over the items. *)
importAll(settings, items, overwrite) ==
  IF items = <<>> THEN settings
  ELSE LET item == Head(items)
           existing == settings[item.key]
           next == IF existing.exists /\ ~overwrite THEN settings
                   ELSE IF existing.exists
                     THEN [settings EXCEPT ![item.key] = importOverwrite(existing, item)]
                   ELSE [settings EXCEPT ![item.key] = importCreate(item)]
       IN  importAll(next, Tail(items), overwrite)

RECURSIVE updateAll(_, _)
(* The loop of updateMultipleSettings over the updates. *)
updateAll(settings, updates) ==
  IF updates = <<>> THEN settings
  ELSE LET u == Head(updates)
           setting == settings[u.key]
           next == IF ~setting.exists \/ ~setting.isEditable THEN settings
                   ELSE [settings EXCEPT ![u.key] = updateValue(setting, u.value)]
       IN  updateAll(next, Tail(updates))

(* Settings.setSetting: findOneAndUpdate with upsert, no pre('save'). *)
setSettingDoc(doc, value) == [doc EXCEPT !.exists = TRUE, !.value = value]

(* The loop of initializeDefaults: findOneAndUpdate with upsert. *)
initializeDefaults(settings) ==
  [k \in SettingKeys |->
     IF k \in DOMAIN defaultSettings
       THEN [settings[k] EXCEPT !.exists = TRUE, !.value = defaultSettings[k].value,
                                !.type = defaultSettings[k].type,
                                !.category = defaultSettings[k].category,
                                !.validation = defaultSettings[k].validation]
       ELSE settings[k]]

Batches(items) == UNION {[1..n -> items] : n \in 0..MaxBatch}

SettingRequests ==
  {[handler |-> "getSetting", user |-> u, key |-> k] :
     u \in DOMAIN SettingAccounts, k \in SettingKeys}
  \cup {[handler |-> "createSetting", user |-> u,
         body |-> [key |-> "theme", value |-> v, type |-> ty, category |-> "ui",
                   isEditable |-> e,
                   validation |-> CASE ty = "string" -> Options({S_light, S_dark})
                                    [] ty = "number" -> Range(1, 10)
                                    [] OTHER -> NoValidation]] :
          u \in DOMAIN SettingAccounts, v \in SettingValues,
          ty \in {"string", "number", "array", "colour"}, e \in BOOLEAN}
  \cup {[handler |-> "updateSetting", user |-> u, key |-> k, body |-> [value |-> v]] :
          u \in DOMAIN SettingAccounts, k \in SettingKeys, v \in SettingValues}
  \cup {[handler |-> "updateMultipleSettings", user |-> u, body |-> [settings |-> s]] :
          u \in DOMAIN SettingAccounts,
          s \in Batches([key : SettingKeys, value : SettingValues])}
  \cup {[handler |-> "importSettings", user |-> u, body |-> [settings |-> s, overwrite |-> o]] :
          u \in DOMAIN SettingAccounts, o \in BOOLEAN,
          s \in Batches([key : {"max_file_size", "theme"},
                         value : SettingValues \cup {UndefinedValue},
                         type : {"undefined", "boolean"}, category : {"general"}])}
  \cup {[handler |-> "initializeDefaultSettings", user |-> u] : u \in DOMAIN SettingAccounts}
  \cup {[handler |-> "setSetting", key |-> "max_login_attempts", value |-> v] :
          v \in SettingValues}

InitSettings == Idle([settings |-> [k \in SettingKeys |-> NoSetting]])

ReceiveSetting == \E r \in SettingRequests : Receive(r)

Role == SettingAccounts[req.user]

(* GET /api/settings/:key: getSettingValidator, getSetting *)
getSetting ==
  /\ Handling("getSetting")
  /\ LET setting == db.settings[req.key]
     IN  IF ~settingsRouteAllows(Role) THEN Serve(Forbidden("getSetting"), db)
         ELSE IF ~setting.exists THEN Serve(NotFound("getSetting"), db)
         ELSE IF ~setting.isPublic /\ Role # S_master THEN Serve(Forbidden("getSetting"), db)
         ELSE Serve(Answer("getSetting", 200), db)

(* POST /api/settings: createSettingValidator, createSetting; a key that is
   stored is a duplicate key error. *)
createSetting ==
  /\ Handling("createSetting")
  /\ LET new == createSettingDoc(req.body)
     IN  IF ~settingsRouteAllows(Role) THEN Serve(Forbidden("createSetting"), db)
         ELSE IF ~createSettingValidator(req.body) THEN Serve(BadRequest("createSetting"), db)
         ELSE IF db.settings[req.body.key].exists \/ ~schemaValid(new) \/ ~preSave(new)
           THEN Serve(ServerError("createSetting"), db)
         ELSE Serve(Answer("createSetting", 201), [db EXCEPT !.settings[req.body.key] = new])

(* PUT /api/settings/:key: updateSettingValidator, updateSetting *)
updateSetting ==
  /\ Handling("updateSetting")
  /\ LET setting == db.settings[req.key]
     IN  IF ~settingsRouteAllows(Role) THEN Serve(Forbidden("updateSetting"), db)
         ELSE IF req.body.value = UndefinedValue THEN Serve(BadRequest("updateSetting"), db)
         ELSE IF ~setting.exists THEN Serve(NotFound("updateSetting"), db)
         ELSE IF ~setting.isEditable THEN Serve(BadRequest("updateSetting"), db)
         ELSE IF Role # S_master /\ setting.category = "security"
           THEN Serve(Forbidden("updateSetting"), db)
         ELSE IF ~preSave([setting EXCEPT !.value = req.body.value])
           THEN Serve(BadRequest("updateSetting"), db)
         ELSE Serve(Answer("updateSetting", 200),
                    [db EXCEPT !.settings[req.key] = updateValue(setting, req.body.value)])

(* PUT /api/settings/bulk: updateMultipleSettingsValidator,
   updateMultipleSettings *)
updateMultipleSettings ==
  /\ Handling("updateMultipleSettings")
  /\ IF ~settingsRouteAllows(Role) THEN Serve(Forbidden("updateMultipleSettings"), db)
     ELSE IF Len(req.body.settings) = 0 THEN Serve(BadRequest("updateMultipleSettings"), db)
     ELSE Serve(Answer("updateMultipleSettings", 200),
                [db EXCEPT !.settings = updateAll(@, req.body.settings)])

(* POST /api/settings/import: importSettingsValidator, importSettings *)
importSettings ==
  /\ Handling("importSettings")
  /\ IF ~settingsRouteAllows(Role) THEN Serve(Forbidden("importSettings"), db)
     ELSE IF Len(req.body.settings) = 0 THEN Serve(BadRequest("importSettings"), db)
     ELSE Serve(Answer("importSettings", 200),
                [db EXCEPT !.settings = importAll(@, req.body.settings, req.body.overwrite)])

(* POST /api/settings/initialize: initializeDefaultSettings *)
initializeDefaultSettings ==
  /\ Handling("initializeDefaultSettings")
  /\ IF ~settingsRouteAllows(Role) THEN Serve(Forbidden("initializeDefaultSettings"), db)
     ELSE Serve(Answer("initializeDefaultSettings", 200),
                [db EXCEPT !.settings = initializeDefaults(@)])

(* A call of Settings.setSetting(key, value). *)
setSetting ==
  /\ Handling("setSetting")
  /\ Serve(Answer("setSetting", 200),
           [db EXCEPT !.settings[req.key] = setSettingDoc(@, req.value)])

NextSettings ==
  \/ ReceiveSetting
  \/ getSetting
  \/ createSetting
  \/ updateSetting
  \/ updateMultipleSettings
  \/ importSettings
  \/ initializeDefaultSettings
  \/ setSetting
  \/ Respond

SpecSettings == InitSettings /\ [][NextSettings]_vars

(* C15: an admin who reads a stored setting with GET /api/settings/:key is
   answered 200, and an admin who sends PUT /api/settings/:key for a stored,
   editable setting outside the category security, with a value its type
   and validation accept, is answered 200 and the value is stored. *)
C15_AdminReadsAndUpdatesSettings ==
  [][/\ (Handling("getSetting") /\ Role = S_admin /\ db.settings[req.key].exists) =>
          res'.status = 200
     /\ (/\ Handling("updateSetting")
         /\ Role = S_admin
         /\ db.settings[req.key].exists
         /\ db.settings[req.key].isEditable
         /\ db.settings[req.key].category # "security"
         /\ preSave([db.settings[req.key] EXCEPT !.value = req.body.value])) =>
          (res'.status = 200 /\ db'.settings[req.key].value = req.body.value)]_vars

Conforms(doc) ==
  /\ doc.type = "number" =>
       /\ doc.value.kind = "number"
       /\ doc.validation.hasMin => doc.value.n >= doc.validation.min
       /\ doc.validation.hasMax => doc.value.n <= doc.validation.max
  /\ doc.type = "boolean" => doc.value.kind = "bool"
  /\ doc.type = "string" =>
       /\ doc.value.kind = "string"
       /\ doc.validation.hasOptions => doc.value.s \in doc.validation.options

(* C20: the value of every stored setting conforms to its declared type and
   validation: a number setting holds a number within its min and max, a
   boolean setting a boolean, a string setting a string among its options. *)
C20_StoredSettingsConform ==
  \A k \in SettingKeys : db.settings[k].exists => Conforms(db.settings[k])

(***************************************************************************)
(* POST /api/auth/login: loginLimiter, loginValidator, login, for one      *)
(* registered account. Time is counted in quarters of an hour.             *)
(* db.user holds loginAttempts and lockUntil, db.limiter the hits          *)
(* loginLimiter counts for each address, db.seen what the clients have     *)
(* seen: the wrong passwords answered in a row and the time of the fifth.  *)
(***************************************************************************)
MaxQuarter == 3

MaxIps == 2

LimiterWindow == 1

LimiterMax == 5

MaxLoginAttempts == 5

LockQuarters == 8

NoLock == [set |-> FALSE, until |-> 0]

(* The virtual isLocked. *)
isLocked(user, now) == user.lockUntil.set /\ user.lockUntil.until > now

(* The user document after comparePassword with a password that matches or
   does not; the account is not locked. *)
comparePassword(user, isMatch) ==
  IF isMatch /\ user.loginAttempts > 0
    THEN [user EXCEPT !.loginAttempts = 0, !.lockUntil = NoLock]
    ELSE user

NoHits == [hits |-> 0, resetAt |-> 0]

(* loginLimiter: the record of the address after the hit of a request. *)
limiterHit(record, now) ==
  LET current == IF now >= record.resetAt
                   THEN [hits |-> 0, resetAt |-> now + LimiterWindow]
                   ELSE record
  IN  [current EXCEPT !.hits = IF @ > LimiterMax THEN @ ELSE @ + 1]

(* skipSuccessfulRequests: the hit of an answered login is taken back. *)
limiterSkip(record) == [record EXCEPT !.hits = @ - 1]

LoginRequests ==
  {[handler |-> "login", ip |-> ip, password |-> p] : ip \in 1..MaxIps, p \in {"right", "wrong"}}

InitLogin ==
  Idle([user |-> [loginAttempts |-> 0, lockUntil |-> NoLock],
        limiter |-> [ip \in 1..MaxIps |-> NoHits],
        seen |-> [failed |-> 0, fifthAt |-> 0],
        now |-> 0])

ReceiveLogin == \E r \in LoginRequests : Receive(r)

(* A quarter of an hour passes; the limiter's store drops the records whose
   window is over. *)
TickLogin ==
  /\ pc = "idle"
  /\ db.now < MaxQuarter
  /\ db' = [db EXCEPT !.now = @ + 1,
                      !.limiter = [ip \in 1..MaxIps |->
                                     IF db.now + 1 >= @[ip].resetAt THEN NoHits ELSE @[ip]]]
  /\ UNCHANGED <<pc, req, feat, res>>

(* What the clients have seen after an answer to a wrong or right password. *)
Seen(seen, isMatch, now) ==
  IF isMatch THEN [failed |-> 0, fifthAt |-> 0]
  ELSE IF seen.failed >= MaxLoginAttempts THEN seen
  ELSE [failed |-> seen.failed + 1,
        fifthAt |-> IF seen.failed + 1 = MaxLoginAttempts THEN now ELSE 0]

login ==
  /\ Handling("login")
  /\ LET hit == limiterHit(db.limiter[req.ip], db.now)
         limited == [db EXCEPT !.limiter[req.ip] = hit]
         isMatch == req.password = "right"
     IN  IF hit.hits > LimiterMax THEN Serve(Answer("login", 429), limited)
         ELSE IF isLocked(db.user, db.now) THEN Serve(ServerError("login"), limited)
         ELSE IF ~isMatch
           THEN Serve(Answer("login", 401),
                      [limited EXCEPT !.seen = Seen(@, FALSE, db.now)])
         ELSE Serve(Answer("login", 201),
                    [limited EXCEPT !.user = comparePassword(@, TRUE),
                                    !.limiter[req.ip] = limiterSkip(hit),
                                    !.seen = Seen(@, TRUE, db.now)])

NextLogin ==
  \/ ReceiveLogin
  \/ TickLogin
  \/ login
  \/ Respond

SpecLogin == InitLogin /\ [][NextLogin]_vars

(* C16: once five wrong passwords in a row have been answered, every login
   of the two hours after the fifth is refused, the right password
   included. *)
C16_LockedAfterFiveFailures ==
  [][(/\ Handling("login")
      /\ db.seen.failed >= MaxLoginAttempts
      /\ db.now < db.seen.fifthAt + LockQuarters) => res'.status >= 400]_vars

(***************************************************************************)
(* GET /api/auth/refresh-token and POST /api/auth/logout of one user,      *)
(* with requests in flight at the same time: req[i] is the request of      *)
(* connection i and its position. A refresh token is jwt.sign of the user  *)
(* id with the second of issue, so the tokens of one user are told apart   *)
(* by that second alone. db.refreshToken is the stored token; db.issued,   *)
(* db.used and db.loggedOut record the tokens that were handed out, that   *)
(* were answered a refresh and whose session logged out.                   *)
(***************************************************************************)
MaxRequests == 2

MaxSecond == 2

NoToken == [set |-> FALSE, iat |-> 0]

Token(iat) == [set |-> TRUE, iat |-> iat]

NoConnection == [handler |-> "none", token |-> NoToken, position |-> "none", status |-> 0]

(* sendResponse: jwt.sign({userId}, REFRESH_TOKEN_SECRET) at the second now. *)
sendResponse(now) == Token(now)

(* The user has logged in at second 0. *)
InitRefresh ==
  /\ pc = "concurrent"
  /\ req = [i \in 1..MaxRequests |-> NoConnection]
  /\ feat = NoPagination
  /\ res = NoResponse
  /\ db = [refreshToken |-> sendResponse(0), issued |-> {sendResponse(0)}, used |-> {},
           loggedOut |-> {}, now |-> 0]

Position(i, position) == pc = "concurrent" /\ req[i].position = position

(* A client sends a request with a refresh token it was given. *)
ReceiveRefresh ==
  \E i \in 1..MaxRequests, handler \in {"refreshAccessToken", "logout"}, token \in db.issued :
    /\ Position(i, "none")
    /\ req' = [req EXCEPT ![i] = [handler |-> handler, token |-> token,
                                  position |-> "received", status |-> 0]]
    /\ UNCHANGED <<pc, feat, res, db>>

(* refreshAccessToken up to the test of the token read with findById. *)
refreshAccessTokenRead ==
  \E i \in 1..MaxRequests :
    /\ Position(i, "received")
    /\ req[i].handler = "refreshAccessToken"
    /\ req' = [req EXCEPT ![i] = IF db.refreshToken # req[i].token
                                   THEN [@ EXCEPT !.position = "answered", !.status = 403]
                                   ELSE [@ EXCEPT !.position = "checked"]]
    /\ UNCHANGED <<pc, feat, res, db>>

(* refreshAccessToken from sendResponse on: findByIdAndUpdate stores the new
   token. *)
refreshAccessTokenWrite ==
  \E i \in 1..MaxRequests :
    /\ Position(i, "checked")
    /\ req' = [req EXCEPT ![i] = [@ EXCEPT !.position = "answered", !.status = 200]]
    /\ db' = [db EXCEPT !.refreshToken = sendResponse(db.now),
                        !.issued = @ \cup {sendResponse(db.now)},
                        !.used = @ \cup {req[i].token}]
    /\ UNCHANGED <<pc, feat, res>>

(* logout: findOneAndUpdate({_id, refreshToken}, {refreshToken: null}). *)
logout ==
  \E i \in 1..MaxRequests :
    /\ Position(i, "received")
    /\ req[i].handler = "logout"
    /\ req' = [req EXCEPT ![i] = [@ EXCEPT !.position = "answered", !.status = 200]]
    /\ db' = IF db.refreshToken = req[i].token
               THEN [db EXCEPT !.refreshToken = NoToken, !.loggedOut = @ \cup {req[i].token}]
               ELSE db
    /\ UNCHANGED <<pc, feat, res>>

(* The answer is delivered. *)
RespondRefresh ==
  \E i \in 1..MaxRequests :
    /\ Position(i, "answered")
    /\ req' = [req EXCEPT ![i] = NoConnection]
    /\ UNCHANGED <<pc, feat, res, db>>

(* A second passes. *)
TickRefresh ==
  /\ pc = "concurrent"
  /\ db.now < MaxSecond
  /\ db' = [db EXCEPT !.now = @ + 1]
  /\ UNCHANGED <<pc, req, feat, res>>

NextRefresh ==
  \/ ReceiveRefresh
  \/ refreshAccessTokenRead
  \/ refreshAccessTokenWrite
  \/ logout
  \/ RespondRefresh
  \/ TickRefresh

SpecRefresh == InitRefresh /\ [][NextRefresh]_vars

(* C17: a refresh is answered 200 only for the token that is stored at that
   moment, which was answered no refresh before and whose session has not
   logged out, and the token stored afterwards is another one. *)
C17_RefreshTokenUsedOnce ==
  [][\A i \in 1..MaxRequests :
       (req[i].handler = "refreshAccessToken" /\ req[i].position # "answered"
          /\ req'[i].position = "answered" /\ req'[i].status = 200) =>
         /\ db.refreshToken = req[i].token
         /\ req[i].token \notin db.used
         /\ req[i].token \notin db.loggedOut
         /\ db'.refreshToken # req[i].token]_vars

(***************************************************************************)
(* The password reset cycle of one account: POST /api/auth/forgotPassword, *)
(* POST /api/auth/verifyResetCode, PUT /api/auth/resetPassword. Time is    *)
(* counted in minutes; the requests come from addresses within the         *)
(* allowance of passwordResetLimiter.                                      *)
(***************************************************************************)
MaxMinute == 15

TickMinutes == 5

MaxCodes == 2

ResetMinutes == 10

Passwords == {"first", "second"}

NoReset == [code |-> 0, expires |-> 0, verified |-> FALSE]

ResetRequests ==
  {[handler |-> "forgotPassword", resetCode |-> c, sent |-> s] :
     c \in 1..MaxCodes, s \in BOOLEAN}
  \cup {[handler |-> "verifyPassResetCode", body |-> [resetCode |-> c]] : c \in 1..MaxCodes}
  \cup {[handler |-> "resetPassword", body |-> [newPassword |-> p]] : p \in Passwords}

InitReset == Idle([user |-> [password |-> "first", reset |-> NoReset], now |-> 0])

ReceiveReset == \E r \in ResetRequests : Receive(r)

TickReset ==
  /\ pc = "idle"
  /\ db.now + TickMinutes <= MaxMinute
  /\ db' = [db EXCEPT !.now = @ + TickMinutes]
  /\ UNCHANGED <<pc, req, feat, res>>

(* forgotPassword: req.resetCode is the code Math.random gives, req.sent
   whether sendEmail succeeds. *)
forgotPassword ==
  /\ Handling("forgotPassword")
  /\ IF req.sent
       THEN Serve(Answer("forgotPassword", 200),
                  [db EXCEPT !.user.reset = [code |-> req.resetCode,
                                             expires |-> db.now + ResetMinutes,
                                             verified |-> FALSE]])
       ELSE Serve(ServerError("forgotPassword"), [db EXCEPT !.user.reset = NoReset])

(* verifyPassResetCode: findOne by the hashed code and
   passwordResetExpires > now. *)
verifyPassResetCode ==
  /\ Handling("verifyPassResetCode")
  /\ IF db.user.reset.code = req.body.resetCode /\ db.user.reset.expires > db.now
       THEN Serve(Answer("verifyPassResetCode", 200), [db EXCEPT !.user.reset.verified = TRUE])
       ELSE Serve(NotFound("verifyPassResetCode"), db)

resetPassword ==
  /\ Handling("resetPassword")
  /\ IF ~db.user.reset.verified THEN Serve(NotFound("resetPassword"), db)
     ELSE Serve(Answer("resetPassword", 200),
                [db EXCEPT !.user = [password |-> req.body.newPassword, reset |-> NoReset]])

NextReset ==
  \/ ReceiveReset
  \/ TickReset
  \/ forgotPassword
  \/ verifyPassResetCode
  \/ resetPassword
  \/ Respond

SpecReset == InitReset /\ [][NextReset]_vars

(* C18: resetPassword sets the password only when a reset code of the user
   is stored and verified and its ten minutes have not elapsed. *)
C18_ResetOnlyWithinValidity ==
  [][(Handling("resetPassword") /\ (res'.status = 200 \/ db'.user.password # db.user.password)) =>
       /\ db.user.reset.code # 0
       /\ db.user.reset.verified
       /\ db.now < db.user.reset.expires]_vars

(* resetPassword sets the password only when a reset code of the user is
   stored that verifyPassResetCode has verified. *)
C18_HoldsForVerifiedCode ==
  [][(Handling("resetPassword") /\ (res'.status = 200 \/ db'.user.password # db.user.password)) =>
       /\ db.user.reset.code # 0
       /\ db.user.reset.verified]_vars

(***************************************************************************)
(* The life of one mission, created open by the admin: POST                *)
(* /api/missions/:id/apply, /:id/accept/:partnerId, /:id/start and         *)
(* /:id/complete. db.mission is the mission document.                      *)
(***************************************************************************)
MaxPartners == 2

MaxBudget == 2

MissionAccounts == [i \in 1..(MaxPartners + 1) |-> IF i <= MaxPartners THEN S_partner ELSE S_admin]

NoApplication == [applied |-> FALSE, proposedBudget |-> 0, status |-> "pending"]

(* A mission as createMission stores it. *)
OpenMission ==
  [status |-> "open", assignedTo |-> 0, finalBudget |-> 0,
   applications |-> [p \in 1..MaxPartners |-> NoApplication]]

MissionRequests ==
  {[handler |-> "applyForMission", user |-> u, body |-> [proposedBudget |-> b]] :
     u \in DOMAIN MissionAccounts, b \in 1..MaxBudget}
  \cup {[handler |-> "acceptApplication", user |-> u, partnerId |-> p] :
          u \in DOMAIN MissionAccounts, p \in 1..MaxPartners}
  \cup {[handler |-> h, user |-> u] :
          h \in {"startMission", "completeMission"}, u \in DOMAIN MissionAccounts}

InitMissions == Idle([mission |-> OpenMission])

ReceiveMission == \E r \in MissionRequests : Receive(r)

MissionRole == MissionAccounts[req.user]

(* missionSchema.methods.acceptApplication for a partner who has applied. *)
acceptApplicationDoc(mission, partnerId) ==
  [mission EXCEPT
     !.applications = [p \in 1..MaxPartners |->
                         IF ~@[p].applied THEN @[p]
                         ELSE [@[p] EXCEPT !.status = IF p = partnerId THEN "accepted"
                                                      ELSE "rejected"]],
     !.assignedTo = partnerId,
     !.status = "assigned",
     !.finalBudget = mission.applications[partnerId].proposedBudget]

(* POST /api/missions/:id/apply: allowedTo("partner"), applyForMission *)
applyForMission ==
  /\ Handling("applyForMission")
  /\ IF ~allowedTo({S_partner}, MissionRole) THEN Serve(Forbidden("applyForMission"), db)
     ELSE IF db.mission.status # "open" THEN Serve(BadRequest("applyForMission"), db)
     ELSE IF db.mission.applications[req.user].applied
       THEN Serve(BadRequest("applyForMission"), db)
     ELSE Serve(Answer("applyForMission", 200),
                [db EXCEPT !.mission.applications[req.user] =
                             [applied |-> TRUE, proposedBudget |-> req.body.proposedBudget,
                              status |-> "pending"]])

(* POST /api/missions/:id/accept/:partnerId: allowedTo("admin", "master"),
   acceptApplication *)
acceptApplication ==
  /\ Handling("acceptApplication")
  /\ IF ~allowedTo({S_admin, S_master}, MissionRole)
       THEN Serve(Forbidden("acceptApplication"), db)
     ELSE IF ~db.mission.applications[req.partnerId].applied
       THEN Serve(BadRequest("acceptApplication"), db)
     ELSE Serve(Answer("acceptApplication", 200),
                [db EXCEPT !.mission = acceptApplicationDoc(@, req.partnerId)])

(* POST /api/missions/:id/start: allowedTo("partner"), startMission; with no
   assigned partner assignedTo.toString() throws. *)
startMission ==
  /\ Handling("startMission")
  /\ IF ~allowedTo({S_partner}, MissionRole) THEN Serve(Forbidden("startMission"), db)
     ELSE IF db.mission.assignedTo = 0 THEN Serve(ServerError("startMission"), db)
     ELSE IF db.mission.assignedTo # req.user THEN Serve(Forbidden("startMission"), db)
     ELSE IF db.mission.status # "assigned" THEN Serve(BadRequest("startMission"), db)
     ELSE Serve(Answer("startMission", 200), [db EXCEPT !.mission.status = "in_progress"])

(* POST /api/missions/:id/complete: allowedTo("partner"), completeMission *)
completeMission ==
  /\ Handling("completeMission")
  /\ IF ~allowedTo({S_partner}, MissionRole) THEN Serve(Forbidden("completeMission"), db)
     ELSE IF db.mission.assignedTo = 0 THEN Serve(ServerError("completeMission"), db)
     ELSE IF db.mission.assignedTo # req.user THEN Serve(Forbidden("completeMission"), db)
     ELSE IF db.mission.status # "in_progress" THEN Serve(BadRequest("completeMission"), db)
     ELSE Serve(Answer("completeMission", 200), [db EXCEPT !.mission.status = "completed"])

NextMissions ==
  \/ ReceiveMission
  \/ applyForMission
  \/ acceptApplication
  \/ startMission
  \/ completeMission
  \/ Respond

SpecMissions == InitMissions /\ [][NextMissions]_vars

StatusRank(status) ==
  CASE status = "open" -> 0
    [] status = "assigned" -> 1
    [] status = "in_progress" -> 2
    [] status = "completed" -> 3

(* C19: no step moves the status of the mission backwards along open,
   assigned, in_progress, completed, and once the mission is in_progress or
   completed no step changes its assignedTo or its finalBudget. *)
C19_MissionOnlyMovesForward ==
  [][/\ StatusRank(db'.mission.status) >= StatusRank(db.mission.status)
     /\ db.mission.status \in {"in_progress", "completed"} =>
          /\ db'.mission.assignedTo = db.mission.assignedTo
          /\ db'.mission.finalBudget = db.mission.finalBudget]_vars

====
